---------------------------- MODULE Spec2Model ----------------------------
(***************************************************************************)
(* Model of the Aegis pedagogical policy engine                            *)
(* (packages/policy/src/engine.ts, packages/policy/src/types.ts) and of    *)
(* the learning condition estimator (packages/inference/src/estimator.ts)  *)
(* as they are constructed and driven by the app pipeline                  *)
(* (app/src/pipeline/aegis-pipeline.ts).                                   *)
(*                                                                         *)
(* Units.  Timestamps and windows are whole seconds.  Confidences and      *)
(* thresholds are hundredths (0.5 is 50).  The adjusted cooldown is a      *)
(* multiple of a tenth of a second (120 s x 0.7 = 84.0 s, 135 s x 0.7 =    *)
(* 94.5 s), so adjustedCooldown and next_evaluation_x10 hold ten times the *)
(* number of seconds.  The estimator's smoothed signals and the fields of  *)
(* a feature sample are thousandths (gaze 0.3 is 300, 5 retries are 5000), *)
(* with every EWMA step rounded down to a thousandth; condition scores are *)
(* hundred-thousandths (0.65 is 65000), which makes every weight of        *)
(* computeConditions a whole number.                                       *)
(***************************************************************************)
EXTENDS Integers, Sequences, FiniteSets, TLC

VARIABLES
    config,               \* PedagogicalPolicyEngine.config
    history,              \* PedagogicalPolicyEngine.history
    lastInterventionTime, \* PedagogicalPolicyEngine.lastInterventionTime
    conditionHistory,     \* PedagogicalPolicyEngine.conditionHistory
    now,                  \* the caller's clock (state.t of the latest evaluate)
    call,                 \* the latest call on the engine and its argument
    decision,             \* what the latest call returned: <<>> (void) or <<InterventionDecision>>
    attentiveRun,         \* number of evaluate calls in a row, up to the latest, with dominant 'attentive'
    dominantSince,        \* state.t of the first evaluate of the unbroken run of calls with the latest dominant label
    responses             \* the recordResponse calls since construction: <<[optionChosen, before]>>

VARIABLES
    estimatorConfig,      \* LearningConditionEstimator.config
    buffer,               \* LearningConditionEstimator.buffer
    lastEmit,             \* LearningConditionEstimator.lastEmit
    currentTier,          \* LearningConditionEstimator.currentTier
    smoothed,             \* LearningConditionEstimator.smoothed
    estimatorCall,        \* the latest call on the estimator and its argument
    emitted,              \* what the latest estimate returned: <<>> (null) or <<LearningConditionState>>
    ingested,             \* the samples ingested since construction or the last reset
    emissions             \* the timestamps of the states emitted since construction or the last reset

engineVars == <<config, history, lastInterventionTime, conditionHistory, now, call,
                decision, attentiveRun, dominantSince, responses>>

estimatorVars == <<estimatorConfig, buffer, lastEmit, currentTier, smoothed,
                   estimatorCall, emitted, ingested, emissions>>

\* A second estimator/policy pair, driven after the first by the same calls:
\* the component variables above hold one pair at a time.
VARIABLES
    pair,                 \* which pair the component variables hold: 1 or 2
    script,               \* the calls made on the first pair, its construction included
    outputs,              \* what each call of the script returned on the first pair
    twinOutputs           \* what the calls replayed so far returned on the second pair

twinVars == <<pair, script, outputs, twinOutputs>>

\* The inference timer of the app pipeline.
VARIABLES
    inferenceInterval,    \* AegisPipeline.inferenceInterval: <<>> (null) or <<handle>>
    timers,               \* the handles of the intervals scheduled in the window and not cleared
    handles,              \* the number of setInterval calls so far: the latest handle
    pipelineCall          \* the latest of start, pause and stop called on the pipeline

pipelineVars == <<inferenceInterval, timers, handles, pipelineCall>>

\* What a caller of the two components alone leaves as it is.
callerVars == <<twinVars, pipelineVars>>

vars == <<config, history, lastInterventionTime, conditionHistory, now, call,
          decision, attentiveRun, dominantSince, responses,
          estimatorConfig, buffer, lastEmit, currentTier, smoothed,
          estimatorCall, emitted, ingested, emissions,
          pair, script, outputs, twinOutputs,
          inferenceInterval, timers, handles, pipelineCall>>

----------------------------------------------------------------------------
(* Bounds of the model *)

\* attentiveRun stops counting here.
MaxRun == 10

----------------------------------------------------------------------------
(* Types and constants of the policy package *)

LearningCondition == {"attentive", "wandering", "confused", "overloaded", "fatigued"}

InterventionClass == {"pace", "modality", "hint", "reset", "agency"}

Frequency == {"fewer", "default", "more"}

OptionChosen == {"accept", "dismiss", "alternative"}

DEFAULT_POLICY_CONFIG ==
    [ confidence_threshold |-> 50,
      sustained_window_s   |-> 15,
      cooldown_s           |-> 120,
      max_per_10min        |-> 3,
      preferences          |-> [ frequency    |-> "default",
                                 offer_breaks |-> TRUE,
                                 offer_hints  |-> TRUE ] ]

\* The configuration the app pipeline constructs its engine with.
PipelinePolicyConfig ==
    [ DEFAULT_POLICY_CONFIG EXCEPT
        !.confidence_threshold = 45,
        !.sustained_window_s   = 10,
        !.cooldown_s           = 30,
        !.max_per_10min        = 5 ]

\* CONDITION_INTERVENTIONS with an offer for the attentive learner too.
CONDITION_INTERVENTIONS_Attentive(condition) ==
    CASE condition = "attentive"  -> << "agency" >>
      [] condition = "wandering"  -> << "reset", "modality" >>
      [] condition = "confused"   -> << "hint", "pace", "modality" >>
      [] condition = "overloaded" -> << "pace", "reset" >>
      [] condition = "fatigued"   -> << "reset", "pace" >>

CONDITION_INTERVENTIONS(condition) ==
    CASE condition = "attentive"  -> << >>
      [] condition = "wandering"  -> << "reset", "modality" >>
      [] condition = "confused"   -> << "hint", "pace", "modality" >>
      [] condition = "overloaded" -> << "pace", "reset" >>
      [] condition = "fatigued"   -> << "reset", "pace" >>

\* Number of phrasings RESPONSE_GRAMMAR holds for each class.
GrammarSize == 3

Min(a, b) == IF a <= b THEN a ELSE b
Max(a, b) == IF a >= b THEN a ELSE b

----------------------------------------------------------------------------
(* Private helpers of the engine *)

\* The reasoning of a decision, without the numbers the engine formats into it.
ReasonRelevance  == "Learner appears attentive."
ReasonConfidence == "Confidence below threshold. I may be mistaken."
ReasonSustain    == "Condition not yet sustained."
ReasonCooldown   == "Cooldown active. Avoiding nagging."
ReasonRateLimit  == "Already offered interventions in the last 10 minutes."
ReasonOffer      == "Sustained condition: offering."

noIntervention(reasoning, nextEval) ==
    [ should_intervene    |-> FALSE,
      intervention        |-> << >>,
      reasoning           |-> reasoning,
      next_evaluation_x10 |-> 10 * nextEval ]

\* adjustedThreshold without the 0.3 floor of 'more'.
adjustedThresholdNoFloor(cfg) ==
    LET base == cfg.confidence_threshold
    IN  CASE cfg.preferences.frequency = "fewer" -> base + 10
          [] cfg.preferences.frequency = "more"  -> base - 10
          [] OTHER                               -> base

adjustedThreshold(cfg) ==
    LET base == cfg.confidence_threshold
    IN  CASE cfg.preferences.frequency = "fewer" -> base + 10
          [] cfg.preferences.frequency = "more"  -> Max(base - 10, 30)
          [] OTHER                               -> base

\* adjustedCooldown without the preference: the configured cooldown as it is.
adjustedCooldownUnscaled(cfg) == cfg.cooldown_s * 10

\* adjustedCooldown halving the cooldown for 'more'.
adjustedCooldownHalved(cfg) ==
    LET base == cfg.cooldown_s
    IN  CASE cfg.preferences.frequency = "fewer" -> base * 15
          [] cfg.preferences.frequency = "more"  -> base * 5
          [] OTHER                               -> base * 10

\* Ten times the adjusted cooldown in seconds.
adjustedCooldown(cfg) ==
    LET base == cfg.cooldown_s
    IN  CASE cfg.preferences.frequency = "fewer" -> base * 15
          [] cfg.preferences.frequency = "more"  -> base * 7
          [] OTHER                               -> base * 10

\* isSustained content with half of the recent entries.
isSustainedByHalf(cfg, condHist, condition, t) ==
    LET cutoff     == t - cfg.sustained_window_s
        recent     == SelectSeq(condHist, LAMBDA h : h.t >= cutoff)
        matchCount == Len(SelectSeq(recent, LAMBDA h : h.condition = condition))
    IN  IF Len(recent) = 0
        THEN FALSE
        ELSE 10 * matchCount >= 5 * Len(recent)

isSustained(cfg, condHist, condition, t) ==
    LET cutoff     == t - cfg.sustained_window_s
        recent     == SelectSeq(condHist, LAMBDA h : h.t >= cutoff)
        matchCount == Len(SelectSeq(recent, LAMBDA h : h.condition = condition))
    IN  IF Len(recent) = 0
        THEN FALSE
        ELSE 10 * matchCount >= 6 * Len(recent)

RECURSIVE pruneConditionHistory(_, _, _)
pruneConditionHistory(cfg, condHist, t) ==
    LET cutoff == t - cfg.sustained_window_s * 2
    IN  IF Len(condHist) > 0 /\ condHist[1].t < cutoff
        THEN pruneConditionHistory(cfg, Tail(condHist), t)
        ELSE condHist

\* chooseClass offering 'agency' when every filtered candidate repeats the last class.
chooseClassAgencyFallback(cfg, hist, candidates) ==
    LET filtered  == SelectSeq(candidates, LAMBDA c :
                        /\ ~(c = "reset" /\ ~cfg.preferences.offer_breaks)
                        /\ ~(c = "hint" /\ ~cfg.preferences.offer_hints))
        lastClass == IF Len(hist) > 0 THEN hist[Len(hist)].class ELSE "null"
        varied    == SelectSeq(filtered, LAMBDA c : c # lastClass)
    IN  IF Len(varied) > 0 THEN varied[1] ELSE "agency"

\* chooseClass falling back to the unfiltered candidates when none is varied.
chooseClassUnfilteredFallback(cfg, hist, candidates) ==
    LET filtered  == SelectSeq(candidates, LAMBDA c :
                        /\ ~(c = "reset" /\ ~cfg.preferences.offer_breaks)
                        /\ ~(c = "hint" /\ ~cfg.preferences.offer_hints))
        lastClass == IF Len(hist) > 0 THEN hist[Len(hist)].class ELSE "null"
        varied    == SelectSeq(filtered, LAMBDA c : c # lastClass)
        chosen    == IF Len(varied) > 0 THEN varied ELSE candidates
    IN  chosen[1]

\* chooseClass without the look at the last class: the first filtered candidate.
chooseClassFirst(cfg, hist, candidates) ==
    LET filtered == SelectSeq(candidates, LAMBDA c :
                       /\ ~(c = "reset" /\ ~cfg.preferences.offer_breaks)
                       /\ ~(c = "hint" /\ ~cfg.preferences.offer_hints))
    IN  IF Len(filtered) > 0 THEN filtered[1] ELSE candidates[1]

chooseClass(cfg, hist, candidates) ==
    LET filtered  == SelectSeq(candidates, LAMBDA c :
                        /\ ~(c = "reset" /\ ~cfg.preferences.offer_breaks)
                        /\ ~(c = "hint" /\ ~cfg.preferences.offer_hints))
        lastClass == IF Len(hist) > 0 THEN hist[Len(hist)].class ELSE "null"
        varied    == SelectSeq(filtered, LAMBDA c : c # lastClass)
        chosen    == IF Len(varied) > 0 THEN varied ELSE filtered
    IN  IF Len(chosen) > 0 THEN chosen[1] ELSE candidates[1]

\* buildOptions with splice(1, 1, ...): the alternative replaces 'dismiss'.
buildOptionsReplacing(cls) ==
    LET options == << [ id |-> "accept", action |-> "accept" ],
                      [ id |-> "dismiss", action |-> "dismiss" ] >>
    IN  IF cls = "agency" \/ cls = "modality"
        THEN << options[1], [ id |-> "alternative", action |-> "alternative" ] >>
        ELSE options

\* buildOptions with push: the alternative comes after 'dismiss'.
buildOptionsAppending(cls) ==
    LET options == << [ id |-> "accept", action |-> "accept" ],
                      [ id |-> "dismiss", action |-> "dismiss" ] >>
    IN  IF cls = "agency" \/ cls = "modality"
        THEN << options[1], options[2], [ id |-> "alternative", action |-> "alternative" ] >>
        ELSE options

buildOptions(cls) ==
    LET options == << [ id |-> "accept", action |-> "accept" ],
                      [ id |-> "dismiss", action |-> "dismiss" ] >>
    IN  IF cls = "agency" \/ cls = "modality"
        THEN << options[1], [ id |-> "alternative", action |-> "alternative" ], options[2] >>
        ELSE options

\* The id of an intervention, without the clock reading and the random suffix
\* the engine formats into it.
InterventionId == "int_"

\* buildIntervention letting Math.random() decide the class as well.
buildInterventionAtRandom(cls, state, message) ==
    [ id           |-> InterventionId,
      class        |-> IF message = 1 THEN cls ELSE "agency",
      message      |-> message,
      options      |-> buildOptions(IF message = 1 THEN cls ELSE "agency"),
      triggered_by |-> [ i \in DOMAIN state.drivers |-> state.drivers[i].description ],
      confidence   |-> state.confidence ]

\* buildIntervention naming the first driver only.
buildInterventionFirstDriver(cls, state, message) ==
    [ id           |-> InterventionId,
      class        |-> cls,
      message      |-> message,
      options      |-> buildOptions(cls),
      triggered_by |-> IF state.drivers = << >> THEN << >>
                       ELSE << state.drivers[1].description >>,
      confidence   |-> state.confidence ]

\* message is the index of the phrasing Math.random() picks.
buildIntervention(cls, state, message) ==
    [ id           |-> InterventionId,
      class        |-> cls,
      message      |-> message,
      options      |-> buildOptions(cls),
      triggered_by |-> [ i \in DOMAIN state.drivers |-> state.drivers[i].description ],
      confidence   |-> state.confidence ]

----------------------------------------------------------------------------
(* The gates of evaluate, on the engine as it is after the push and the prune *)

RelevanceGate(state) == Len(CONDITION_INTERVENTIONS(state.dominant)) # 0

ConfidenceGate(cfg, state) == ~(state.confidence < adjustedThreshold(cfg))

\* CooldownGate measuring the distance to the last intervention in either direction.
CooldownGateEitherWay(cfg, lastTime, state) ==
    ~(10 * (IF state.t >= lastTime THEN state.t - lastTime ELSE lastTime - state.t)
          < adjustedCooldown(cfg))

CooldownGate(cfg, lastTime, state) ==
    ~(10 * (state.t - lastTime) < adjustedCooldown(cfg))

RateWindow == 600

recentCount(hist, t) == Len(SelectSeq(hist, LAMBDA h : t - h.t < RateWindow))

\* RateLimitGate with > for >=.
RateLimitGateOffByOne(cfg, hist, state) ==
    ~(recentCount(hist, state.t) > cfg.max_per_10min)

RateLimitGate(cfg, hist, state) == ~(recentCount(hist, state.t) >= cfg.max_per_10min)

\* remainingCooldown with Math.floor for Math.ceil.
remainingCooldownFloor(cfg, lastTime, state) ==
    LET x10 == adjustedCooldown(cfg) - 10 * (state.t - lastTime)
    IN  x10 \div 10

\* Math.ceil(cooldown - timeSinceLast), in seconds.
remainingCooldown(cfg, lastTime, state) ==
    LET x10 == adjustedCooldown(cfg) - 10 * (state.t - lastTime)
    IN  (x10 + 9) \div 10

----------------------------------------------------------------------------
(* Operations *)

\* The engine as its constructor leaves it, given one of configs.
New(configs) ==
    /\ config \in configs
    /\ history = << >>
    /\ lastInterventionTime = 0
    /\ conditionHistory = << >>
    /\ now = 0
    /\ call = [ op |-> "new", arg |-> << >> ]
    /\ decision = << >>
    /\ attentiveRun = 0
    /\ dominantSince = 0
    /\ responses = << >>

\* CondHistAfter pushing only the states that pass the relevance and the
\* confidence gate.
CondHistAfterGated(state) ==
    pruneConditionHistory(config,
        IF RelevanceGate(state) /\ ConfidenceGate(config, state)
        THEN Append(conditionHistory, [ t |-> state.t, condition |-> state.dominant ])
        ELSE conditionHistory,
        state.t)

\* conditionHistory after the push and the prune that open evaluate(state).
CondHistAfter(state) ==
    pruneConditionHistory(config,
        Append(conditionHistory, [ t |-> state.t, condition |-> state.dominant ]), state.t)

\* evaluate with the rate-limit gate ahead of the cooldown gate.
EvaluateRateLimitFirst(state) ==
    LET condHist   == CondHistAfter(state)
        candidates == CONDITION_INTERVENTIONS(state.dominant)
        cls        == chooseClass(config, history, candidates)
    IN  /\ conditionHistory' = condHist
        /\ now' = state.t
        /\ call' = [ op |-> "evaluate", arg |-> << state >> ]
        /\ attentiveRun' = IF state.dominant = "attentive"
                           THEN Min(attentiveRun + 1, MaxRun)
                           ELSE 0
        /\ dominantSince' = IF /\ Len(conditionHistory) > 0
                               /\ conditionHistory[Len(conditionHistory)].condition = state.dominant
                            THEN dominantSince
                            ELSE state.t
        /\ UNCHANGED << config, responses >>
        /\ UNCHANGED estimatorVars
        /\ IF ~RelevanceGate(state)
           THEN /\ decision' = << noIntervention(ReasonRelevance, 10) >>
                /\ UNCHANGED << history, lastInterventionTime >>
           ELSE IF ~ConfidenceGate(config, state)
           THEN /\ decision' = << noIntervention(ReasonConfidence, 5) >>
                /\ UNCHANGED << history, lastInterventionTime >>
           ELSE IF ~isSustained(config, condHist, state.dominant, state.t)
           THEN /\ decision' = << noIntervention(ReasonSustain, 5) >>
                /\ UNCHANGED << history, lastInterventionTime >>
           ELSE IF ~RateLimitGate(config, history, state)
           THEN /\ decision' = << noIntervention(ReasonRateLimit, 60) >>
                /\ UNCHANGED << history, lastInterventionTime >>
           ELSE IF ~CooldownGate(config, lastInterventionTime, state)
           THEN /\ decision' = << noIntervention(ReasonCooldown,
                                    remainingCooldown(config, lastInterventionTime, state)) >>
                /\ UNCHANGED << history, lastInterventionTime >>
           ELSE /\ history' = Append(history, [ t |-> state.t, class |-> cls ])
                /\ lastInterventionTime' = state.t
                /\ \E message \in 1..GrammarSize :
                      decision' = << [ should_intervene    |-> TRUE,
                                       intervention        |-> << buildIntervention(cls, state, message) >>,
                                       reasoning           |-> ReasonOffer,
                                       next_evaluation_x10 |-> adjustedCooldown(config) ] >>

\* evaluate stamping the last-intervention time on every call.
evaluateStamping(state) ==
    LET condHist   == CondHistAfter(state)
        candidates == CONDITION_INTERVENTIONS(state.dominant)
        cls        == chooseClass(config, history, candidates)
    IN  /\ conditionHistory' = condHist
        /\ now' = state.t
        /\ call' = [ op |-> "evaluate", arg |-> << state >> ]
        /\ attentiveRun' = IF state.dominant = "attentive"
                           THEN Min(attentiveRun + 1, MaxRun)
                           ELSE 0
        /\ dominantSince' = IF /\ Len(conditionHistory) > 0
                               /\ conditionHistory[Len(conditionHistory)].condition = state.dominant
                            THEN dominantSince
                            ELSE state.t
        /\ UNCHANGED << config, responses >>
        /\ IF ~RelevanceGate(state)
           THEN /\ decision' = << noIntervention(ReasonRelevance, 10) >>
                /\ lastInterventionTime' = state.t
                /\ UNCHANGED history
           ELSE IF ~ConfidenceGate(config, state)
           THEN /\ decision' = << noIntervention(ReasonConfidence, 5) >>
                /\ lastInterventionTime' = state.t
                /\ UNCHANGED history
           ELSE IF ~isSustained(config, condHist, state.dominant, state.t)
           THEN /\ decision' = << noIntervention(ReasonSustain, 5) >>
                /\ lastInterventionTime' = state.t
                /\ UNCHANGED history
           ELSE IF ~CooldownGate(config, lastInterventionTime, state)
           THEN /\ decision' = << noIntervention(ReasonCooldown,
                                    remainingCooldown(config, lastInterventionTime, state)) >>
                /\ lastInterventionTime' = state.t
                /\ UNCHANGED history
           ELSE IF ~RateLimitGate(config, history, state)
           THEN /\ decision' = << noIntervention(ReasonRateLimit, 60) >>
                /\ lastInterventionTime' = state.t
                /\ UNCHANGED history
           ELSE /\ history' = Append(history, [ t |-> state.t, class |-> cls ])
                /\ lastInterventionTime' = state.t
                /\ \E message \in 1..GrammarSize :
                      decision' = << [ should_intervene    |-> TRUE,
                                       intervention        |-> << buildIntervention(cls, state, message) >>,
                                       reasoning           |-> ReasonOffer,
                                       next_evaluation_x10 |-> adjustedCooldown(config) ] >>

\* The effect of evaluate(state) on the engine and what it returns.
evaluate(state) ==
    LET condHist   == CondHistAfter(state)
        candidates == CONDITION_INTERVENTIONS(state.dominant)
        cls        == chooseClass(config, history, candidates)
    IN  /\ conditionHistory' = condHist
        /\ now' = state.t
        /\ call' = [ op |-> "evaluate", arg |-> << state >> ]
        /\ attentiveRun' = IF state.dominant = "attentive"
                           THEN Min(attentiveRun + 1, MaxRun)
                           ELSE 0
        /\ dominantSince' = IF /\ Len(conditionHistory) > 0
                               /\ conditionHistory[Len(conditionHistory)].condition = state.dominant
                            THEN dominantSince
                            ELSE state.t
        /\ UNCHANGED << config, responses >>
        /\ IF ~RelevanceGate(state)
           THEN /\ decision' = << noIntervention(ReasonRelevance, 10) >>
                /\ UNCHANGED << history, lastInterventionTime >>
           ELSE IF ~ConfidenceGate(config, state)
           THEN /\ decision' = << noIntervention(ReasonConfidence, 5) >>
                /\ UNCHANGED << history, lastInterventionTime >>
           ELSE IF ~isSustained(config, condHist, state.dominant, state.t)
           THEN /\ decision' = << noIntervention(ReasonSustain, 5) >>
                /\ UNCHANGED << history, lastInterventionTime >>
           ELSE IF ~CooldownGate(config, lastInterventionTime, state)
           THEN /\ decision' = << noIntervention(ReasonCooldown,
                                    remainingCooldown(config, lastInterventionTime, state)) >>
                /\ UNCHANGED << history, lastInterventionTime >>
           ELSE IF ~RateLimitGate(config, history, state)
           THEN /\ decision' = << noIntervention(ReasonRateLimit, 60) >>
                /\ UNCHANGED << history, lastInterventionTime >>
           ELSE /\ history' = Append(history, [ t |-> state.t, class |-> cls ])
                /\ lastInterventionTime' = state.t
                /\ \E message \in 1..GrammarSize :
                      decision' = << [ should_intervene    |-> TRUE,
                                       intervention        |-> << buildIntervention(cls, state, message) >>,
                                       reasoning           |-> ReasonOffer,
                                       next_evaluation_x10 |-> adjustedCooldown(config) ] >>

\* A call of evaluate by a caller that leaves the estimator alone.
Evaluate(state) == evaluate(state) /\ UNCHANGED estimatorVars

\* recordResponse without the 300 s cap.
RecordResponseUncapped(optionChosen) ==
    /\ config' = IF optionChosen = "dismiss"
                 THEN [ config EXCEPT !.cooldown_s = config.cooldown_s + 15 ]
                 ELSE IF optionChosen = "accept"
                 THEN [ config EXCEPT !.cooldown_s = Max(config.cooldown_s - 5, 60) ]
                 ELSE config
    /\ call' = [ op |-> "recordResponse", arg |-> << optionChosen >> ]
    /\ decision' = << >>
    /\ responses' = Append(responses, [ optionChosen |-> optionChosen, before |-> config.cooldown_s ])
    /\ UNCHANGED << history, lastInterventionTime, conditionHistory, now, attentiveRun, dominantSince >>
    /\ UNCHANGED estimatorVars

RecordResponse(optionChosen) ==
    /\ config' = IF optionChosen = "dismiss"
                 THEN [ config EXCEPT !.cooldown_s = Min(config.cooldown_s + 15, 300) ]
                 ELSE IF optionChosen = "accept"
                 THEN [ config EXCEPT !.cooldown_s = Max(config.cooldown_s - 5, 60) ]
                 ELSE config
    /\ call' = [ op |-> "recordResponse", arg |-> << optionChosen >> ]
    /\ decision' = << >>
    /\ responses' = Append(responses, [ optionChosen |-> optionChosen, before |-> config.cooldown_s ])
    /\ UNCHANGED << history, lastInterventionTime, conditionHistory, now, attentiveRun, dominantSince >>
    /\ UNCHANGED estimatorVars

\* prefs is the Partial<preferences> merged over the current preferences.
UpdatePreferences(prefs) ==
    /\ config' = [ config EXCEPT !.preferences =
                     [ k \in DOMAIN config.preferences |->
                         IF k \in DOMAIN prefs THEN prefs[k] ELSE config.preferences[k] ] ]
    /\ call' = [ op |-> "updatePreferences", arg |-> << >> ]
    /\ decision' = << >>
    /\ UNCHANGED << history, lastInterventionTime, conditionHistory, now, attentiveRun,
                    dominantSince, responses >>
    /\ UNCHANGED estimatorVars

\* reset constructing the configuration anew as well.
ResetToDefaults ==
    /\ history' = << >>
    /\ conditionHistory' = << >>
    /\ lastInterventionTime' = 0
    /\ config' = DEFAULT_POLICY_CONFIG
    /\ call' = [ op |-> "reset", arg |-> << >> ]
    /\ decision' = << >>
    /\ attentiveRun' = 0
    /\ dominantSince' = 0
    /\ UNCHANGED << now, responses >>
    /\ UNCHANGED estimatorVars

\* The effect of reset() on the engine.
reset ==
    /\ history' = << >>
    /\ conditionHistory' = << >>
    /\ lastInterventionTime' = 0
    /\ call' = [ op |-> "reset", arg |-> << >> ]
    /\ decision' = << >>
    /\ attentiveRun' = 0
    /\ dominantSince' = 0
    /\ UNCHANGED << config, now, responses >>

\* A call of reset by a caller that leaves the estimator alone.
Reset == reset /\ UNCHANGED estimatorVars

----------------------------------------------------------------------------
(* The estimator: types, constants and helpers *)

PerceptionTier == {0, 1, 2}

ConditionOrder == << "attentive", "wandering", "confused", "overloaded", "fatigued" >>

DEFAULT_ESTIMATOR_CONFIG == [ window_s |-> 60, emit_interval_s |-> 3, confidence_threshold |-> 40 ]

\* The configuration AegisPipeline passes to the estimator.
PipelineEstimatorConfig == [ window_s |-> 60, emit_interval_s |-> 3, confidence_threshold |-> 40 ]

InitialSmoothed ==
    [ gaze_stability |-> 500, pose_stability |-> 500, blink_rate |-> 200,
      interaction_pace |-> 500, retry_rate |-> 0, idle_time |-> 0 ]

\* The EWMA smoothing factor, in thousandths.
ALPHA == 150

\* alpha * next + (1 - alpha) * prev, alpha in thousandths.
ewma(prev, next, alpha) == (alpha * next + (1000 - alpha) * prev) \div 1000

\* Math.sqrt of n millionths, in thousandths.
Sqrt(n) == CHOOSE r \in 0..3000 : r * r <= n /\ n < (r + 1) * (r + 1)

Abs(v) == IF v < 0 THEN 0 - v ELSE v

\* clamp without its bounds.
clampNone(v, min, max) == v

clamp(v, min, max) == Min(max, Max(min, v))

\* updateSmoothedSignals smoothing a missing field as a reading of 0.
updateSmoothedSignalsDecaying(s, event) ==
    [ gaze_stability   |-> IF event.gaze # << >>
                           THEN ewma(s.gaze_stability,
                                     Max(0, 1000 - Sqrt(event.gaze[1].x * event.gaze[1].x
                                                        + event.gaze[1].y * event.gaze[1].y) * 2),
                                     ALPHA)
                           ELSE ewma(s.gaze_stability, 0, ALPHA),
      pose_stability   |-> IF event.pose # << >>
                           THEN ewma(s.pose_stability,
                                     Max(0, 1000 - (Abs(event.pose[1].yaw) + Abs(event.pose[1].pitch)
                                                    + Abs(event.pose[1].roll)) * 2),
                                     ALPHA)
                           ELSE ewma(s.pose_stability, 0, ALPHA),
      blink_rate       |-> IF event.eyes # << >>
                           THEN ewma(s.blink_rate, event.eyes[1].blink_rate_30s, ALPHA \div 2)
                           ELSE ewma(s.blink_rate, 0, ALPHA \div 2),
      interaction_pace |-> ewma(s.interaction_pace, event.interaction.tap_rate_10s, ALPHA),
      retry_rate       |-> ewma(s.retry_rate, event.interaction.retry_count_60s, ALPHA),
      idle_time        |-> IF event.interaction.idle_seconds # << >>
                           THEN ewma(s.idle_time, event.interaction.idle_seconds[1], ALPHA)
                           ELSE ewma(s.idle_time, 0, ALPHA) ]

updateSmoothedSignals(s, event) ==
    LET gaze == IF event.gaze # << >>
                THEN ewma(s.gaze_stability,
                          Max(0, 1000 - Sqrt(event.gaze[1].x * event.gaze[1].x
                                             + event.gaze[1].y * event.gaze[1].y) * 2),
                          ALPHA)
                ELSE s.gaze_stability
        pose == IF event.pose # << >>
                THEN ewma(s.pose_stability,
                          Max(0, 1000 - (Abs(event.pose[1].yaw) + Abs(event.pose[1].pitch)
                                         + Abs(event.pose[1].roll)) * 2),
                          ALPHA)
                ELSE s.pose_stability
        blink == IF event.eyes # << >>
                 THEN ewma(s.blink_rate, event.eyes[1].blink_rate_30s, ALPHA \div 2)
                 ELSE s.blink_rate
        idle == IF event.interaction.idle_seconds # << >>
                THEN ewma(s.idle_time, event.interaction.idle_seconds[1], ALPHA)
                ELSE s.idle_time
    IN  [ gaze_stability   |-> gaze,
          pose_stability   |-> pose,
          blink_rate       |-> blink,
          interaction_pace |-> ewma(s.interaction_pace, event.interaction.tap_rate_10s, ALPHA),
          retry_rate       |-> ewma(s.retry_rate, event.interaction.retry_count_60s, ALPHA),
          idle_time        |-> idle ]

\* The five scores, in hundred-thousandths.
computeConditions(s) ==
    [ attentive  |-> clamp(s.gaze_stability * 40 + s.pose_stability * 30
                           + (IF s.interaction_pace > 50 THEN 30000 ELSE 10000), 0, 100000),
      wandering  |-> clamp((1000 - s.gaze_stability) * 40 + (1000 - s.pose_stability) * 30
                           + (IF s.idle_time > 10000 THEN 30000 ELSE s.idle_time * 3), 0, 100000),
      confused   |-> clamp(Min(s.retry_rate * 30, 40000)
                           + (IF s.interaction_pace < 100 /\ s.retry_rate > 0 THEN 30000 ELSE 0)
                           + (1000 - s.gaze_stability) * 15, 0, 100000),
      overloaded |-> clamp((IF s.blink_rate > 300 THEN (s.blink_rate - 300) * 2 ELSE 0) * 40
                           + (IF s.retry_rate > 1000 THEN 30000 ELSE s.retry_rate * 30)
                           + (IF s.interaction_pace > 500 THEN 20000 ELSE 0), 0, 100000),
      fatigued   |-> clamp((IF s.blink_rate > 250 THEN (s.blink_rate - 250) * 2 ELSE 0) * 30
                           + (IF s.idle_time > 5000 THEN Min(s.idle_time * 3, 30000) ELSE 0)
                           + (IF s.interaction_pace < 50 THEN 30000 ELSE 0), 0, 100000) ]

\* computeConfidence without the 0.3 cap of the buffer fill and without clamp.
computeConfidenceUncapped(tier, buf) ==
    LET tierBonus  == tier * 15
        bufferFill == Len(buf)
        hasGaze    == IF \E i \in DOMAIN buf : buf[i].gaze # << >> THEN 15 ELSE 0
        hasFace    == IF \E i \in DOMAIN buf : buf[i].quality.face_present THEN 15 ELSE 0
    IN  tierBonus + bufferFill + hasGaze + hasFace + 10

\* The confidence, in hundredths.
computeConfidence(tier, buf) ==
    LET tierBonus  == tier * 15
        bufferFill == Min(Len(buf), 30)
        hasGaze    == IF \E i \in DOMAIN buf : buf[i].gaze # << >> THEN 15 ELSE 0
        hasFace    == IF \E i \in DOMAIN buf : buf[i].quality.face_present THEN 15 ELSE 0
    IN  clamp(tierBonus + bufferFill + hasGaze + hasFace + 10, 0, 100)

RECURSIVE findDominantFromLast(_, _, _, _)
\* The loop of findDominant with >= for >: the last of equal scores wins.
findDominantFromLast(conditions, i, max, dominant) ==
    IF i > Len(ConditionOrder) THEN dominant
    ELSE IF conditions[ConditionOrder[i]] >= max
    THEN findDominantFromLast(conditions, i + 1, conditions[ConditionOrder[i]], ConditionOrder[i])
    ELSE findDominantFromLast(conditions, i + 1, max, dominant)

RECURSIVE findDominantFrom(_, _, _, _)
\* The loop of findDominant from the i-th entry on.
findDominantFrom(conditions, i, max, dominant) ==
    IF i > Len(ConditionOrder) THEN dominant
    ELSE IF conditions[ConditionOrder[i]] > max
    THEN findDominantFrom(conditions, i + 1, conditions[ConditionOrder[i]], ConditionOrder[i])
    ELSE findDominantFrom(conditions, i + 1, max, dominant)

findDominant(conditions) == findDominantFrom(conditions, 1, -1, "attentive")

RECURSIVE pruneBufferInclusive(_, _, _)
\* pruneBuffer with <= for <: the sample at the cutoff goes too.
pruneBufferInclusive(cfg, buf, t) ==
    IF Len(buf) > 0 /\ buf[1].t <= t - cfg.window_s
    THEN pruneBufferInclusive(cfg, Tail(buf), t)
    ELSE buf

RECURSIVE pruneBuffer(_, _, _)
pruneBuffer(cfg, buf, t) ==
    IF Len(buf) > 0 /\ buf[1].t < t - cfg.window_s
    THEN pruneBuffer(cfg, Tail(buf), t)
    ELSE buf

----------------------------------------------------------------------------
(* The estimator: operations *)

NewEstimator(configs) ==
    /\ estimatorConfig \in configs
    /\ buffer = << >>
    /\ lastEmit = 0
    /\ currentTier = 0
    /\ smoothed = InitialSmoothed
    /\ estimatorCall = [ op |-> "new", arg |-> << >> ]
    /\ emitted = << >>
    /\ ingested = << >>
    /\ emissions = << >>

SetTier(tier) ==
    /\ currentTier' = tier
    /\ estimatorCall' = [ op |-> "setTier", arg |-> << tier >> ]
    /\ emitted' = << >>
    /\ UNCHANGED << estimatorConfig, buffer, lastEmit, smoothed, ingested, emissions >>
    /\ UNCHANGED engineVars

Ingest(event) ==
    /\ buffer' = pruneBuffer(estimatorConfig, Append(buffer, event), event.t)
    /\ smoothed' = updateSmoothedSignals(smoothed, event)
    /\ estimatorCall' = [ op |-> "ingest", arg |-> << event >> ]
    /\ emitted' = << >>
    /\ ingested' = Append(ingested, event)
    /\ UNCHANGED << estimatorConfig, lastEmit, currentTier, emissions >>
    /\ UNCHANGED engineVars

\* Math.round of v thousandths.
Round(v) == (v + 500) \div 1000

\* Array.prototype.sort by weight descending: a stable insertion.
RECURSIVE sortByWeight(_)
sortByWeight(drivers) ==
    IF Len(drivers) <= 1
    THEN drivers
    ELSE LET rest   == sortByWeight(Tail(drivers))
             d      == Head(drivers)
             before == SelectSeq(rest, LAMBDA e : e.weight > d.weight)
             after  == SelectSeq(rest, LAMBDA e : e.weight <= d.weight)
         IN  before \o << d >> \o after

\* The drivers of a state, weights in hundredths.
computeDrivers(s) ==
    sortByWeight(
        (IF s.gaze_stability < 400
         THEN << [ description |-> "frequent gaze breaks",
                   features    |-> << "gaze.x", "gaze.y" >>,
                   weight      |-> 40 ] >>
         ELSE << >>)
     \o (IF s.pose_stability < 400
         THEN << [ description |-> "head pose drift",
                   features    |-> << "pose.yaw", "pose.pitch", "pose.roll" >>,
                   weight      |-> 30 ] >>
         ELSE << >>)
     \o (IF s.retry_rate > 500
         THEN << [ description |-> ToString(Round(s.retry_rate)) \o " retries in last minute",
                   features    |-> << "interaction.retry_count_60s" >>,
                   weight      |-> 35 ] >>
         ELSE << >>)
     \o (IF s.idle_time > 10000
         THEN << [ description |-> "extended idle period",
                   features    |-> << "interaction.idle_seconds" >>,
                   weight      |-> 25 ] >>
         ELSE << >>)
     \o (IF s.blink_rate > 300
         THEN << [ description |-> "elevated blink rate",
                   features    |-> << "eyes.blink_rate_30s" >>,
                   weight      |-> 20 ] >>
         ELSE << >>)
     \o (IF s.interaction_pace < 50
         THEN << [ description |-> "slower response times",
                   features    |-> << "interaction.tap_rate_10s" >>,
                   weight      |-> 20 ] >>
         ELSE << >>))

\* estimate stamping lastEmit before it tests the interval.
EstimateStamping(t) ==
    /\ estimatorCall' = [ op |-> "estimate", arg |-> << t >> ]
    /\ UNCHANGED << estimatorConfig, buffer, currentTier, smoothed, ingested >>
    /\ UNCHANGED engineVars
    /\ lastEmit' = t
    /\ IF t - lastEmit < estimatorConfig.emit_interval_s
       THEN /\ emitted' = << >>
            /\ UNCHANGED emissions
       ELSE LET condition == computeConditions(smoothed)
            IN  /\ emissions' = Append(emissions, t)
                /\ emitted' = << [ t          |-> t,
                                   condition  |-> condition,
                                   confidence |-> computeConfidence(currentTier, buffer),
                                   drivers    |-> computeDrivers(smoothed),
                                   dominant   |-> findDominant(condition) ] >>

Estimate(t) ==
    /\ estimatorCall' = [ op |-> "estimate", arg |-> << t >> ]
    /\ UNCHANGED << estimatorConfig, buffer, currentTier, smoothed, ingested >>
    /\ UNCHANGED engineVars
    /\ IF t - lastEmit < estimatorConfig.emit_interval_s
       THEN /\ emitted' = << >>
            /\ UNCHANGED << lastEmit, emissions >>
       ELSE LET condition == computeConditions(smoothed)
            IN  /\ lastEmit' = t
                /\ emissions' = Append(emissions, t)
                /\ emitted' = << [ t          |-> t,
                                   condition  |-> condition,
                                   confidence |-> computeConfidence(currentTier, buffer),
                                   drivers    |-> computeDrivers(smoothed),
                                   dominant   |-> findDominant(condition) ] >>

\* reset forgetting the smoothed signals.
EstimatorResetKeepingSmoothed ==
    /\ buffer' = << >>
    /\ lastEmit' = 0
    /\ estimatorCall' = [ op |-> "reset", arg |-> << >> ]
    /\ emitted' = << >>
    /\ ingested' = << >>
    /\ emissions' = << >>
    /\ UNCHANGED << estimatorConfig, currentTier, smoothed >>
    /\ UNCHANGED engineVars

\* The effect of reset() on the estimator.
estimatorReset ==
    /\ buffer' = << >>
    /\ lastEmit' = 0
    /\ smoothed' = InitialSmoothed
    /\ estimatorCall' = [ op |-> "reset", arg |-> << >> ]
    /\ emitted' = << >>
    /\ ingested' = << >>
    /\ emissions' = << >>
    /\ UNCHANGED << estimatorConfig, currentTier >>

\* A call of the estimator's reset by a caller that leaves the engine alone.
EstimatorReset == estimatorReset /\ UNCHANGED engineVars

----------------------------------------------------------------------------
(* The callers of the engine *)

\* A single pair, whose calls nobody replays.
OnePair ==
    /\ pair = 1
    /\ script = << >>
    /\ outputs = << >>
    /\ twinOutputs = << >>

\* The pipeline as its constructor leaves it: no timer.
NewPipeline ==
    /\ inferenceInterval = << >>
    /\ timers = {}
    /\ handles = 0
    /\ pipelineCall = "new"

\* The partial preference objects the caller passes to updatePreferences.
FrequencyUpdates == { [ frequency |-> f ] : f \in Frequency }

SelectionUpdates ==
    { [ offer_breaks |-> b ] : b \in BOOLEAN } \cup { [ offer_hints |-> b ] : b \in BOOLEAN }

\* The states the caller passes to evaluate: its clock has advanced by a step,
\* it stops at maxTime, and conditionHistory never holds more than maxCondHist
\* entries. They name no driver, as the states of signals that cross no
\* threshold of computeDrivers.
States(steps, conditions, confidences, maxTime, maxCondHist) ==
    { state \in { [ t |-> now + d, dominant |-> l, confidence |-> c, drivers |-> << >> ] :
                    d \in steps, l \in conditions, c \in confidences } :
        /\ state.t <= maxTime
        /\ Len(CondHistAfter(state)) <= maxCondHist }

\* A confidence threshold low enough for the 0.3 floor of 'more' to bind.
LowThresholdConfig == [ PipelinePolicyConfig EXCEPT !.confidence_threshold = 35 ]

(* The gate chain at close range: confidences on both sides of every       *)
(* threshold, evaluations at the same instant and a minute apart.          *)
MaxTime == 120
MaxCondHist == 2
MaxResponses == 1

Init ==
    /\ New({DEFAULT_POLICY_CONFIG, PipelinePolicyConfig, LowThresholdConfig})
    /\ NewEstimator({PipelineEstimatorConfig})
    /\ OnePair
    /\ NewPipeline

Next ==
    \/ \E state \in States({0, 60}, {"attentive", "wandering", "confused"}, {25, 40, 50, 60},
                            MaxTime, MaxCondHist) :
          Evaluate(state) /\ UNCHANGED callerVars
    \/ \E optionChosen \in OptionChosen :
          /\ Len(responses) < MaxResponses
          /\ RecordResponse(optionChosen)
          /\ UNCHANGED callerVars
    \/ \E prefs \in FrequencyUpdates : UpdatePreferences(prefs) /\ UNCHANGED callerVars
    \/ Reset /\ UNCHANGED callerVars

Spec == Init /\ [][Next]_vars

(* Twelve minutes of a session, one evaluation a minute: the cooldown and  *)
(* the ten-minute rate limit.                                              *)
MaxTimeRate == 720
MaxResponsesRate == 1

InitRate ==
    /\ New({DEFAULT_POLICY_CONFIG, PipelinePolicyConfig})
    /\ NewEstimator({PipelineEstimatorConfig})
    /\ OnePair
    /\ NewPipeline

NextRate ==
    \/ \E state \in States({60}, {"attentive", "wandering"}, {60}, MaxTimeRate, MaxCondHist) :
          Evaluate(state) /\ UNCHANGED callerVars
    \/ \E optionChosen \in OptionChosen :
          /\ Len(responses) < MaxResponsesRate
          /\ RecordResponse(optionChosen)
          /\ UNCHANGED callerVars
    \/ \E prefs \in FrequencyUpdates : UpdatePreferences(prefs) /\ UNCHANGED callerVars
    \/ Reset /\ UNCHANGED callerVars

SpecRate == InitRate /\ [][NextRate]_vars

(* Two minutes of evaluations ten or twenty seconds apart, without         *)
(* feedback: the sustain window.                                           *)
MaxTimeSustain == 120
MaxCondHistSustain == 4

InitSustain ==
    /\ New({DEFAULT_POLICY_CONFIG, PipelinePolicyConfig})
    /\ NewEstimator({PipelineEstimatorConfig})
    /\ OnePair
    /\ NewPipeline

NextSustain ==
    \/ \E state \in States({10, 20}, {"attentive", "wandering", "confused"}, {60},
                            MaxTimeSustain, MaxCondHistSustain) :
          Evaluate(state) /\ UNCHANGED callerVars
    \/ Reset /\ UNCHANGED callerVars

SpecSustain == InitSustain /\ [][NextSustain]_vars

(* The response feedback loop, from cooldowns at and between its limits.   *)
MaxTimeFeedback == 120
MaxResponsesFeedback == 3

InitFeedback ==
    /\ New({ DEFAULT_POLICY_CONFIG, PipelinePolicyConfig,
             [ DEFAULT_POLICY_CONFIG EXCEPT !.cooldown_s = 290 ],
             [ DEFAULT_POLICY_CONFIG EXCEPT !.cooldown_s = 62 ] })
    /\ NewEstimator({PipelineEstimatorConfig})
    /\ OnePair
    /\ NewPipeline

NextFeedback ==
    \/ \E state \in States({60}, {"attentive", "wandering"}, {60}, MaxTimeFeedback, MaxCondHist) :
          Evaluate(state) /\ UNCHANGED callerVars
    \/ \E optionChosen \in OptionChosen :
          /\ Len(responses) < MaxResponsesFeedback
          /\ RecordResponse(optionChosen)
          /\ UNCHANGED callerVars
    \/ \E prefs \in FrequencyUpdates \cup SelectionUpdates : UpdatePreferences(prefs) /\ UNCHANGED callerVars
    \/ Reset /\ UNCHANGED callerVars

SpecFeedback == InitFeedback /\ [][NextFeedback]_vars

(* All five gates within three minutes: a configuration that allows one    *)
(* intervention per window and whose adjusted cooldowns are not whole      *)
(* seconds (52.5 s for 'more', 112.5 s for 'fewer').                       *)
SingleOfferConfig ==
    [ PipelinePolicyConfig EXCEPT !.cooldown_s = 75, !.max_per_10min = 1 ]

MaxTimeGates == 180
MaxCondHistGates == 2

InitGates ==
    /\ New({DEFAULT_POLICY_CONFIG, SingleOfferConfig})
    /\ NewEstimator({PipelineEstimatorConfig})
    /\ OnePair
    /\ NewPipeline

NextGates ==
    \/ \E state \in States({0, 60}, {"attentive", "wandering", "confused"}, {40, 60},
                            MaxTimeGates, MaxCondHistGates) :
          Evaluate(state) /\ UNCHANGED callerVars
    \/ \E prefs \in FrequencyUpdates : UpdatePreferences(prefs) /\ UNCHANGED callerVars
    \/ Reset /\ UNCHANGED callerVars

SpecGates == InitGates /\ [][NextGates]_vars

(* Class selection: every label, the break and hint preferences, and      *)
(* interventions a minute apart so that the last class varies.             *)
MaxTimeSelect == 240
MaxCondHistSelect == 1

InitSelect ==
    /\ New({PipelinePolicyConfig})
    /\ NewEstimator({PipelineEstimatorConfig})
    /\ OnePair
    /\ NewPipeline

NextSelect ==
    \/ \E state \in States({60}, LearningCondition, {60}, MaxTimeSelect, MaxCondHistSelect) :
          Evaluate(state) /\ UNCHANGED callerVars
    \/ \E prefs \in SelectionUpdates : UpdatePreferences(prefs) /\ UNCHANGED callerVars
    \/ Reset /\ UNCHANGED callerVars

SpecSelect == InitSelect /\ [][NextSelect]_vars

(* The share of the dominant label in the sustain window: evaluations at   *)
(* the same instant or five seconds apart, up to five of them within the   *)
(* pipeline's ten-second window.                                           *)
MaxTimeShare == 40
MaxCondHistShare == 5

InitShare ==
    /\ New({PipelinePolicyConfig})
    /\ NewEstimator({PipelineEstimatorConfig})
    /\ OnePair
    /\ NewPipeline

NextShare ==
    \/ \E state \in States({0, 5}, {"attentive", "wandering", "confused"}, {60},
                            MaxTimeShare, MaxCondHistShare) :
          Evaluate(state) /\ UNCHANGED callerVars
    \/ Reset /\ UNCHANGED callerVars

SpecShare == InitShare /\ [][NextShare]_vars

(* A caller whose state timestamps come in any order: evaluate at any of   *)
(* four instants, earlier or later than the call before.                   *)
AnyOrderTimes == {0, 40, 80, 120}
MaxCondHistAnyOrder == 2
MaxResponsesAnyOrder == 1

\* The states of a caller that passes any timestamp of times.
StatesAt(times, conditions, confidences, maxCondHist) ==
    { state \in { [ t |-> t, dominant |-> l, confidence |-> c, drivers |-> << >> ] :
                    t \in times, l \in conditions, c \in confidences } :
        Len(CondHistAfter(state)) <= maxCondHist }

InitAnyOrder ==
    /\ New({PipelinePolicyConfig})
    /\ NewEstimator({PipelineEstimatorConfig})
    /\ OnePair
    /\ NewPipeline

NextAnyOrder ==
    \/ \E state \in StatesAt(AnyOrderTimes, {"attentive", "confused"}, {40, 60},
                               MaxCondHistAnyOrder) :
          Evaluate(state) /\ UNCHANGED callerVars
    \/ \E optionChosen \in OptionChosen :
          /\ Len(responses) < MaxResponsesAnyOrder
          /\ RecordResponse(optionChosen)
          /\ UNCHANGED callerVars
    \/ \E prefs \in FrequencyUpdates : UpdatePreferences(prefs) /\ UNCHANGED callerVars
    \/ Reset /\ UNCHANGED callerVars

SpecAnyOrder == InitAnyOrder /\ [][NextAnyOrder]_vars

(* The spacing of interventions: engines constructed with a cooldown of    *)
(* 60 s or 300 s, evaluations six or forty-two seconds apart, responses    *)
(* and frequency changes in between, and no reset.                         *)
MaxTimeSpacing == 90
MaxCondHistSpacing == 6
MaxResponsesSpacing == 1

SpacingConfigs ==
    { [ DEFAULT_POLICY_CONFIG EXCEPT !.cooldown_s = c ] : c \in {60, 300} }

InitSpacing ==
    /\ New(SpacingConfigs)
    /\ NewEstimator({PipelineEstimatorConfig})
    /\ OnePair
    /\ NewPipeline

NextSpacing ==
    \/ \E state \in States({6, 42}, {"confused"}, {60}, MaxTimeSpacing, MaxCondHistSpacing) :
          Evaluate(state) /\ UNCHANGED callerVars
    \/ \E optionChosen \in OptionChosen :
          /\ Len(responses) < MaxResponsesSpacing
          /\ RecordResponse(optionChosen)
          /\ UNCHANGED callerVars
    \/ \E prefs \in FrequencyUpdates : UpdatePreferences(prefs) /\ UNCHANGED callerVars

SpecSpacing == InitSpacing /\ [][NextSpacing]_vars

(* Waiting out a cooldown: an engine constructed with a cooldown of 15 s,  *)
(* which 'more' and 'fewer' turn into 10.5 s and 22.5 s, evaluated every   *)
(* one second or ten seconds after the call before.                        *)
MaxTimeWait == 24
MaxCondHistWait == 21

WaitConfig == [ PipelinePolicyConfig EXCEPT !.cooldown_s = 15 ]

InitWait ==
    /\ New({WaitConfig})
    /\ NewEstimator({PipelineEstimatorConfig})
    /\ OnePair
    /\ NewPipeline

NextWait ==
    \/ \E state \in States({1, 10}, {"confused"}, {60}, MaxTimeWait, MaxCondHistWait) :
          Evaluate(state) /\ UNCHANGED callerVars
    \/ \E prefs \in FrequencyUpdates : UpdatePreferences(prefs) /\ UNCHANGED callerVars
    \/ Reset /\ UNCHANGED callerVars

SpecWait == InitWait /\ [][NextWait]_vars

(* The confidence gate under each frequency: engines constructed with a   *)
(* confidence threshold from 0.2 to 0.5, and states whose confidence lies  *)
(* on either side of the adjusted thresholds.                              *)
MaxTimeThreshold == 120
MaxCondHistThreshold == 2

ThresholdConfigs ==
    { [ PipelinePolicyConfig EXCEPT !.confidence_threshold = c ] : c \in {20, 30, 35, 50} }

InitThreshold ==
    /\ New(ThresholdConfigs)
    /\ NewEstimator({PipelineEstimatorConfig})
    /\ OnePair
    /\ NewPipeline

NextThreshold ==
    \/ \E state \in States({0, 60}, {"confused"}, {25, 45}, MaxTimeThreshold,
                            MaxCondHistThreshold) :
          Evaluate(state) /\ UNCHANGED callerVars
    \/ \E prefs \in FrequencyUpdates : UpdatePreferences(prefs) /\ UNCHANGED callerVars
    \/ Reset /\ UNCHANGED callerVars

SpecThreshold == InitThreshold /\ [][NextThreshold]_vars

----------------------------------------------------------------------------
(* The callers of the estimator *)

SampleKind == {"telemetry idle", "telemetry busy", "camera calm", "camera restless"}

\* The kinds of sample of a learner who keeps retrying without tapping: five
\* retries in the last minute, the last of them six seconds ago.
RetryingKind == {"telemetry retrying", "camera calm retrying", "camera restless retrying"}

\* A feature sample of the given kind with timestamp t: telemetry-only samples
\* as runInference synthesises them at Tier 0, camera samples as perception
\* emits them.
Sample(t, kind) ==
    LET calm     == kind \in {"camera calm", "camera calm retrying"}
        restless == kind \in {"camera restless", "camera restless retrying"}
    IN  [ t       |-> t,
          quality |-> [ face_present |-> calm \/ restless ],
          gaze    |-> CASE calm     -> << [ x |-> 0, y |-> 0 ] >>
                        [] restless -> << [ x |-> 1000, y |-> -1000 ] >>
                        [] OTHER    -> << >>,
          pose    |-> CASE calm     -> << [ yaw |-> 0, pitch |-> 0, roll |-> 0 ] >>
                        [] restless -> << [ yaw |-> 300, pitch |-> -200, roll |-> 100 ] >>
                        [] OTHER    -> << >>,
          eyes    |-> CASE calm     -> << [ blink_rate_30s |-> 200 ] >>
                        [] restless -> << [ blink_rate_30s |-> 20000 ] >>
                        [] OTHER    -> << >>,
          interaction |->
              CASE kind = "telemetry idle"  -> [ tap_rate_10s |-> 0, retry_count_60s |-> 0,
                                                 idle_seconds |-> << 30000 >> ]
                [] kind = "telemetry busy"  -> [ tap_rate_10s |-> 2000, retry_count_60s |-> 5000,
                                                 idle_seconds |-> << >> ]
                [] kind = "camera calm"     -> [ tap_rate_10s |-> 300, retry_count_60s |-> 0,
                                                 idle_seconds |-> << 0 >> ]
                [] kind = "camera restless" -> [ tap_rate_10s |-> 2000, retry_count_60s |-> 5000,
                                                 idle_seconds |-> << 30000 >> ]
                [] kind \in RetryingKind    -> [ tap_rate_10s |-> 0, retry_count_60s |-> 5000,
                                                 idle_seconds |-> << 6000 >> ] ]

\* The timestamp of the latest ingested sample, 0 before the first.
lastIngested == IF ingested = << >> THEN 0 ELSE ingested[Len(ingested)].t

\* The samples a caller with a non-decreasing clock ingests next.
Samples(steps, kinds, maxTime, maxIngested) ==
    { event \in { Sample(lastIngested + d, kind) : d \in steps, kind \in kinds } :
        /\ event.t <= maxTime
        /\ Len(ingested) < maxIngested }

(* The emission gate and the scores: a few samples of every kind, estimate *)
(* at any instant of the first seconds, in any order.                      *)
MaxTimeEstimator == 4
MaxIngestedEstimator == 2
MaxNowEstimator == 7
MaxEmissionsEstimator == 2

InitEstimator ==
    /\ New({PipelinePolicyConfig})
    /\ NewEstimator({PipelineEstimatorConfig})
    /\ OnePair
    /\ NewPipeline

NextEstimator ==
    \/ \E event \in Samples({1}, SampleKind, MaxTimeEstimator, MaxIngestedEstimator) :
          Ingest(event) /\ UNCHANGED callerVars
    \/ \E t \in 0..MaxNowEstimator :
          /\ \/ Len(emissions) < MaxEmissionsEstimator
             \/ t - lastEmit < estimatorConfig.emit_interval_s
          /\ Estimate(t)
          /\ UNCHANGED callerVars
    \/ \E tier \in PerceptionTier : SetTier(tier) /\ UNCHANGED callerVars
    \/ EstimatorReset /\ UNCHANGED callerVars

SpecEstimator == InitEstimator /\ [][NextEstimator]_vars

(* The sliding window: samples up to forty seconds apart over a few        *)
(* minutes, so that the 60-second window prunes.                           *)
MaxTimeBuffer == 150
MaxIngestedBuffer == 4

InitBuffer ==
    /\ New({PipelinePolicyConfig})
    /\ NewEstimator({PipelineEstimatorConfig})
    /\ OnePair
    /\ NewPipeline

NextBuffer ==
    \/ \E event \in Samples({0, 30, 40}, {"telemetry idle", "camera calm"},
                            MaxTimeBuffer, MaxIngestedBuffer) :
          Ingest(event) /\ UNCHANGED callerVars
    \/ EstimatorReset /\ UNCHANGED callerVars

SpecBuffer == InitBuffer /\ [][NextBuffer]_vars

\* The samples a caller whose timestamps follow no order ingests next.
UnorderedSamples(times, kinds, maxIngested) ==
    { event \in { Sample(t, kind) : t \in times, kind \in kinds } :
        Len(ingested) < maxIngested }

(* The same window fed with timestamps in any order.                       *)
MaxIngestedUnordered == 3

InitUnordered ==
    /\ New({PipelinePolicyConfig})
    /\ NewEstimator({PipelineEstimatorConfig})
    /\ OnePair
    /\ NewPipeline

NextUnordered ==
    \/ \E event \in UnorderedSamples({0, 50, 100, 170}, {"telemetry idle", "camera calm"},
                                     MaxIngestedUnordered) :
          Ingest(event) /\ UNCHANGED callerVars
    \/ EstimatorReset /\ UNCHANGED callerVars

SpecUnordered == InitUnordered /\ [][NextUnordered]_vars

(* A buffer filling up one sample a second past the thirty samples that    *)
(* saturate the buffer fill: at most the first sample comes from the       *)
(* camera, and estimate follows an ingest as in runInference.              *)
MaxTimeFill == 40
MaxIngestedFill == 31
MaxEmissionsFill == 1

InitFill ==
    /\ New({PipelinePolicyConfig})
    /\ NewEstimator({PipelineEstimatorConfig})
    /\ OnePair
    /\ NewPipeline

NextFill ==
    \/ \E event \in Samples({1}, IF ingested = << >>
                                 THEN {"telemetry idle", "camera calm"}
                                 ELSE {"telemetry idle"},
                            MaxTimeFill, MaxIngestedFill) :
          Ingest(event) /\ UNCHANGED callerVars
    \/ /\ ingested # << >>
       /\ Len(emissions) < MaxEmissionsFill
       /\ Estimate(lastIngested)
       /\ UNCHANGED callerVars
    \/ \E tier \in PerceptionTier : SetTier(tier) /\ UNCHANGED callerVars
    \/ EstimatorReset /\ UNCHANGED callerVars

SpecFill == InitFill /\ [][NextFill]_vars

(* A learner who keeps retrying: a sample every two seconds, all of one     *)
(* kind, until the smoothed retry rate no longer moves.                    *)
MaxTimeRetries == 100
MaxIngestedRetries == 47
MaxEmissionsRetries == 1

InitRetries ==
    /\ New({PipelinePolicyConfig})
    /\ NewEstimator({PipelineEstimatorConfig})
    /\ OnePair
    /\ NewPipeline

NextRetries ==
    \/ \E event \in Samples({2}, IF ingested = << >>
                                 THEN RetryingKind
                                 ELSE { kind \in RetryingKind :
                                          Sample(0, kind).quality = ingested[1].quality
                                          /\ Sample(0, kind).gaze = ingested[1].gaze },
                            MaxTimeRetries, MaxIngestedRetries) :
          Ingest(event) /\ UNCHANGED callerVars
    \/ /\ ingested # << >>
       /\ Len(emissions) < MaxEmissionsRetries
       /\ Estimate(lastIngested)
       /\ UNCHANGED callerVars
    \/ \E tier \in PerceptionTier : SetTier(tier) /\ UNCHANGED callerVars
    \/ EstimatorReset /\ UNCHANGED callerVars

SpecRetries == InitRetries /\ [][NextRetries]_vars

----------------------------------------------------------------------------
(* The app pipeline: the inference timer *)

\* Seconds between two runs of runInference.
TickInterval == 2

\* Date.now() / 1000 when the pipeline starts: an epoch clock, far beyond
\* every window and cooldown of the two components.
SessionStart == 1000

\* The clock of the latest run of runInference, at Tier 0.
lastTick == IF ingested = << >> THEN SessionStart ELSE lastIngested

\* runInference at time t, the tracker's snapshot being that of a sample of
\* the given kind: at Tier 0 a synthetic telemetry-only sample is ingested,
\* then estimate(t), and evaluate of the state when there is one.
RunInference(t, kind) ==
    LET syntheticEvent == [ Sample(t, kind) EXCEPT
                              !.quality = [ face_present |-> FALSE ],
                              !.pose = << >>, !.gaze = << >>, !.eyes = << >> ]
        tier0     == currentTier = 0
        buf       == IF tier0
                     THEN pruneBuffer(estimatorConfig, Append(buffer, syntheticEvent), t)
                     ELSE buffer
        s         == IF tier0 THEN updateSmoothedSignals(smoothed, syntheticEvent) ELSE smoothed
        condition == computeConditions(s)
        state     == [ t          |-> t,
                       condition  |-> condition,
                       confidence |-> computeConfidence(currentTier, buf),
                       drivers    |-> computeDrivers(s),
                       dominant   |-> findDominant(condition) ]
    IN  /\ buffer' = buf
        /\ smoothed' = s
        /\ ingested' = IF tier0 THEN Append(ingested, syntheticEvent) ELSE ingested
        /\ estimatorCall' = [ op |-> "estimate", arg |-> << t >> ]
        /\ UNCHANGED << estimatorConfig, currentTier >>
        /\ IF t - lastEmit < estimatorConfig.emit_interval_s
           THEN /\ emitted' = << >>
                /\ UNCHANGED << lastEmit, emissions >>
                /\ UNCHANGED engineVars
           ELSE /\ lastEmit' = t
                /\ emissions' = Append(emissions, t)
                /\ \E returned \in {state} :    \* the state, computed once
                      /\ emitted' = << returned >>
                      /\ evaluate(returned)

\* The pipeline after its construction and one start().
StartedPipeline ==
    /\ inferenceInterval = << 1 >>
    /\ timers = {1}
    /\ handles = 1
    /\ pipelineCall = "start"

\* The telemetry of a learner who does not tap: idle, or retrying.
Tier0Kind == {"telemetry idle", "telemetry retrying"}

(* A session with the camera off, as the app runs it: the timer fires      *)
(* every two seconds for a little over the estimator's window, and the     *)
(* learner's telemetry stays of one kind after the first ticks.            *)
MaxTicksTier0 == 36
FreeTicksTier0 == 3

InitTier0 ==
    /\ New({PipelinePolicyConfig})
    /\ NewEstimator({PipelineEstimatorConfig})
    /\ OnePair
    /\ StartedPipeline

NextTier0 ==
    \E kind \in Tier0Kind :
       /\ timers # {}
       /\ Len(ingested) < MaxTicksTier0
       /\ Len(ingested) >= FreeTicksTier0 =>
             Sample(0, kind).interaction = ingested[Len(ingested)].interaction
       /\ RunInference(lastTick + TickInterval, kind)
       /\ UNCHANGED callerVars

\* setInterval fires the timer again and again while the pipeline runs.
SpecTier0 == InitTier0 /\ [][NextTier0]_vars /\ WF_vars(NextTier0)

\* The calls of start() and the seconds of ticks that are followed.
MaxHandles == 2
MaxTimeLifecycle == 8

\* The clock of the pipeline: the time of its latest run of runInference,
\* which neither reset takes back.
pipelineClock == Max(lastTick, now)

\* start(): a new interval is set and its handle kept, whatever handle was
\* kept before.
Start ==
    /\ handles < MaxHandles
    /\ handles' = handles + 1
    /\ timers' = timers \cup {handles + 1}
    /\ inferenceInterval' = << handles + 1 >>
    /\ pipelineCall' = "start"
    /\ UNCHANGED << engineVars, estimatorVars, twinVars >>

\* The effect of pause() on the timer: the interval whose handle is kept is
\* cleared.
pause ==
    /\ timers' = IF inferenceInterval # << >>
                 THEN timers \ {inferenceInterval[1]}
                 ELSE timers
    /\ inferenceInterval' = << >>
    /\ UNCHANGED handles

Pause ==
    /\ pause
    /\ pipelineCall' = "pause"
    /\ UNCHANGED << engineVars, estimatorVars, twinVars >>

\* stop(): pause(), then the reset of the estimator and of the engine.
Stop ==
    /\ pause
    /\ estimatorReset
    /\ reset
    /\ pipelineCall' = "stop"
    /\ UNCHANGED twinVars

\* A scheduled interval fires.
Tick(kind) ==
    /\ timers # {}
    /\ pipelineClock + TickInterval <= SessionStart + MaxTimeLifecycle
    /\ RunInference(pipelineClock + TickInterval, kind)
    /\ UNCHANGED callerVars

(* The life of a pipeline at Tier 0: start, pause and stop in any order,   *)
(* and the ticks of the intervals that are scheduled.                      *)
InitLifecycle ==
    /\ New({PipelinePolicyConfig})
    /\ NewEstimator({PipelineEstimatorConfig})
    /\ OnePair
    /\ NewPipeline

NextLifecycle ==
    \/ Start
    \/ Pause
    \/ Stop
    \/ \E kind \in Tier0Kind : Tick(kind)

SpecLifecycle == InitLifecycle /\ [][NextLifecycle]_vars

----------------------------------------------------------------------------
(* Two pairs driven by the same calls *)

\* Both constructors, on the component variables.
Construct(cfg, estimatorCfg) ==
    /\ config' = cfg
    /\ history' = << >>
    /\ lastInterventionTime' = 0
    /\ conditionHistory' = << >>
    /\ now' = 0
    /\ call' = [ op |-> "new", arg |-> << >> ]
    /\ decision' = << >>
    /\ attentiveRun' = 0
    /\ dominantSince' = 0
    /\ responses' = << >>
    /\ estimatorConfig' = estimatorCfg
    /\ buffer' = << >>
    /\ lastEmit' = 0
    /\ currentTier' = 0
    /\ smoothed' = InitialSmoothed
    /\ estimatorCall' = [ op |-> "new", arg |-> << >> ]
    /\ emitted' = << >>
    /\ ingested' = << >>
    /\ emissions' = << >>

\* The call c on the pair the component variables hold; evaluate is handed
\* the state the pair's own estimator has just emitted.
Perform(c) ==
    CASE c.op = "setTier"  -> SetTier(c.arg[1])
      [] c.op = "ingest"   -> Ingest(c.arg[1])
      [] c.op = "estimate" -> Estimate(c.arg[1])
      [] c.op = "evaluate" -> emitted # << >> /\ Evaluate(emitted[1])

\* What the call c has just returned.
Returned(c) ==
    CASE c.op = "estimate" -> emitted'
      [] c.op = "evaluate" -> decision'
      [] OTHER             -> << >>

\* The calls a caller may make, with timestamps of its own choosing.
Calls(tiers, times, kinds) ==
    { [ op |-> "setTier", arg |-> << tier >> ] : tier \in tiers }
    \cup { [ op |-> "ingest", arg |-> << Sample(t, kind) >> ] : t \in times, kind \in kinds }
    \cup { [ op |-> "estimate", arg |-> << t >> ] : t \in times }
    \cup { [ op |-> "evaluate", arg |-> << >> ] }

(* A first pair takes a few calls; then a second pair is constructed with  *)
(* the same configuration and takes the same calls in the same order.      *)
MaxScript == 6

InitTwin ==
    /\ New({PipelinePolicyConfig})
    /\ NewEstimator({PipelineEstimatorConfig})
    /\ pair = 1
    /\ script = << [ op |-> "new", arg |-> << config, estimatorConfig >> ] >>
    /\ outputs = << << >> >>
    /\ twinOutputs = << >>
    /\ NewPipeline

NextTwin ==
    \/ \E c \in Calls({1}, {40, 80}, {"camera restless"}) :
          /\ pair = 1
          /\ Len(script) < MaxScript
          /\ Perform(c)
          /\ script' = Append(script, c)
          /\ outputs' = Append(outputs, Returned(c))
          /\ UNCHANGED << pair, twinOutputs >>
          /\ UNCHANGED pipelineVars
    \/ /\ pair = 1
       /\ Construct(script[1].arg[1], script[1].arg[2])
       /\ pair' = 2
       /\ twinOutputs' = << << >> >>
       /\ UNCHANGED << script, outputs >>
       /\ UNCHANGED pipelineVars
    \/ /\ pair = 2
       /\ Len(twinOutputs) < Len(script)
       /\ LET c == script[Len(twinOutputs) + 1]
          IN  /\ Perform(c)
              /\ twinOutputs' = Append(twinOutputs, Returned(c))
       /\ UNCHANGED << pair, script, outputs >>
       /\ UNCHANGED pipelineVars

SpecTwin == InitTwin /\ [][NextTwin]_vars

(* One pair in use: calls in any order, the estimator's states handed to   *)
(* the engine, and either component reset at any moment.                   *)
MaxIngestedSession == 1
MaxCondHistSession == 1

InitSession ==
    /\ New({PipelinePolicyConfig})
    /\ NewEstimator({PipelineEstimatorConfig})
    /\ OnePair
    /\ NewPipeline

NextSession ==
    \/ \E c \in Calls({1}, {40, 80}, {"camera restless"}) :
          /\ c.op = "ingest" => Len(ingested) < MaxIngestedSession
          /\ c.op = "evaluate" =>
                emitted # << >> /\ Len(CondHistAfter(emitted[1])) <= MaxCondHistSession
          /\ Perform(c)
          /\ UNCHANGED callerVars
    \/ Reset /\ UNCHANGED callerVars
    \/ EstimatorReset /\ UNCHANGED callerVars

SpecSession == InitSession /\ [][NextSession]_vars

(* A session started over: responses and preference changes that move the *)
(* configuration, a tier set on the estimator, and the reset of each.      *)
MaxTimeRestart == 120
MaxCondHistRestart == 1
MaxResponsesRestart == 1
MaxIngestedRestart == 1

InitRestart ==
    /\ New({DEFAULT_POLICY_CONFIG})
    /\ NewEstimator({PipelineEstimatorConfig})
    /\ OnePair
    /\ NewPipeline

NextRestart ==
    \/ \E state \in States({60}, {"wandering"}, {60}, MaxTimeRestart, MaxCondHistRestart) :
          Evaluate(state) /\ UNCHANGED callerVars
    \/ \E optionChosen \in OptionChosen :
          /\ Len(responses) < MaxResponsesRestart
          /\ RecordResponse(optionChosen)
          /\ UNCHANGED callerVars
    \/ \E prefs \in FrequencyUpdates \cup SelectionUpdates :
          UpdatePreferences(prefs) /\ UNCHANGED callerVars
    \/ Reset /\ UNCHANGED callerVars
    \/ \E tier \in PerceptionTier : SetTier(tier) /\ UNCHANGED callerVars
    \/ \E event \in Samples({1}, {"camera restless"}, MaxTimeRestart, MaxIngestedRestart) :
          Ingest(event) /\ UNCHANGED callerVars
    \/ EstimatorReset /\ UNCHANGED callerVars

SpecRestart == InitRestart /\ [][NextRestart]_vars

----------------------------------------------------------------------------
(* Properties *)

\* The latest call was evaluate; state is its argument, Decision what it returned.
Evaluated == call.op = "evaluate"
EvaluatedState == call.arg[1]
Decision == decision[1]
Intervened == Evaluated /\ Decision.should_intervene

\* The interventions issued before the latest call (since the last reset).
PriorInterventions ==
    IF Intervened THEN SubSeq(history, 1, Len(history) - 1) ELSE history

\* The latest call passed the relevance, confidence and sustain gates.
PassedSustain ==
    /\ Evaluated
    /\ RelevanceGate(EvaluatedState)
    /\ ConfidenceGate(config, EvaluatedState)
    /\ isSustained(config, conditionHistory, EvaluatedState.dominant, EvaluatedState.t)

\* Number of records of hist with lo < t <= hi.
CountIn(hist, lo, hi) ==
    Cardinality({ i \in DOMAIN hist : lo < hist[i].t /\ hist[i].t <= hi })

(* C1: no 600-second span (T-600, T] holds more than max_per_10min         *)
(* interventions, and a call that passes the first four gates while        *)
(* max_per_10min interventions lie in the trailing 600 seconds abstains    *)
(* with the rate-limit reasoning.                                          *)
C1_RateLimit ==
    /\ \A i \in DOMAIN history :
          CountIn(history, history[i].t - 600, history[i].t) <= config.max_per_10min
    /\ ( /\ PassedSustain
         /\ Intervened \/ CooldownGate(config, lastInterventionTime, EvaluatedState)
         /\ CountIn(PriorInterventions, EvaluatedState.t - 600, EvaluatedState.t)
              >= config.max_per_10min )
       => ~Decision.should_intervene /\ Decision.reasoning = ReasonRateLimit

C1_Witness ==
    /\ Evaluated
    /\ Decision.reasoning = ReasonRateLimit
    /\ config.max_per_10min = 3
    /\ Len(history) = 3

\* Ten times the cooldown the claim's text gives for a frequency preference.
ClaimedCooldown10(cooldown_s, frequency) ==
    IF frequency = "fewer" THEN cooldown_s * 15
    ELSE IF frequency = "more" THEN cooldown_s * 7
    ELSE cooldown_s * 10

(* C2, as amended: after an intervention at t0, a later evaluate at t0+e   *)
(* that passes the relevance, confidence and sustain gates abstains with   *)
(* the cooldown reasoning whenever 0 <= e < the adjusted cooldown          *)
(* (cooldown_s x 1.5 for 'fewer', x 0.7 for 'more', x 1 for 'default').    *)
C2_CooldownAdjusted ==
    PassedSustain =>
       \A i \in DOMAIN PriorInterventions :
          LET e == EvaluatedState.t - PriorInterventions[i].t
          IN  ( /\ 0 <= e
                /\ 10 * e < ClaimedCooldown10(config.cooldown_s, config.preferences.frequency) )
              => ~Decision.should_intervene /\ Decision.reasoning = ReasonCooldown

C2_Witness ==
    /\ PassedSustain
    /\ Decision.reasoning = ReasonCooldown
    /\ config.preferences.frequency = "more"
    /\ Len(history) > 0
    /\ EvaluatedState.t - history[Len(history)].t = 60

(* C2, as claimed: the same for every 0 <= e < cooldown_s, whatever the    *)
(* frequency preference.                                                   *)
C2_CooldownUnadjusted ==
    PassedSustain =>
       \A i \in DOMAIN PriorInterventions :
          LET e == EvaluatedState.t - PriorInterventions[i].t
          IN  (0 <= e /\ e < config.cooldown_s)
              => ~Decision.should_intervene /\ Decision.reasoning = ReasonCooldown

\* The threshold the claim's text gives for a frequency preference.
ClaimedThreshold(confidence_threshold, frequency) ==
    IF frequency = "fewer" THEN confidence_threshold + 10
    ELSE IF frequency = "more" THEN Max(confidence_threshold - 10, 30)
    ELSE confidence_threshold

(* C3: evaluate never intervenes for a state whose confidence is below the *)
(* threshold adjusted by the frequency preference.                         *)
C3_ConfidenceGate ==
    Intervened =>
       EvaluatedState.confidence >=
          ClaimedThreshold(config.confidence_threshold, config.preferences.frequency)

C3_Witness ==
    /\ Intervened
    /\ config.preferences.frequency = "fewer"
    /\ EvaluatedState.confidence = 60
    /\ config.confidence_threshold = 45

(* C4: evaluate of an attentive-dominant state abstains, with intervention *)
(* null and next_evaluation_s = 10, in every engine state.                 *)
C4_AttentiveAbstains ==
    (Evaluated /\ EvaluatedState.dominant = "attentive") =>
       /\ ~Decision.should_intervene
       /\ Decision.intervention = << >>
       /\ Decision.next_evaluation_x10 = 100

C4_Witness ==
    /\ Evaluated
    /\ EvaluatedState.dominant = "attentive"
    /\ EvaluatedState.confidence = 60
    /\ Len(history) > 0
    /\ EvaluatedState.t - lastInterventionTime >= 60
    /\ ~Decision.should_intervene

\* The options of a list whose action is 'dismiss'.
Dismissals(options) == { i \in DOMAIN options : options[i].action = "dismiss" }

(* C7: every intervention evaluate returns has at least two options,       *)
(* exactly one of them 'dismiss'.                                          *)
C7_OneDismiss ==
    Intervened =>
       LET options == Decision.intervention[1].options
       IN  Len(options) >= 2 /\ Cardinality(Dismissals(options)) = 1

C7_Witness ==
    /\ Intervened
    /\ Decision.intervention[1].class = "modality"
    /\ Len(Decision.intervention[1].options) = 3

(* C8: config.cooldown_s lies in [60, 300] in every reachable state, from  *)
(* construction with a supplied PolicyConfig onward.                       *)
C8_CooldownBounded == 60 <= config.cooldown_s /\ config.cooldown_s <= 300

\* cooldown_s after a response, as the claim's text gives it.
ClaimedCooldownAfter(before, optionChosen) ==
    IF optionChosen = "dismiss" THEN Min(before + 15, 300)
    ELSE IF optionChosen = "accept" THEN Max(before - 5, 60)
    ELSE before

\* cooldown_s as the i-th recorded response left it.
CooldownAfter(i) ==
    IF i < Len(responses) THEN responses[i + 1].before ELSE config.cooldown_s

C5_SustainAfterAttentive ==
    [][ ( /\ attentiveRun >= 10
          /\ call'.op = "evaluate"
          /\ call'.arg[1].dominant = "confused" )
        => ~decision'[1].should_intervene ]_vars

(* C6: evaluate intervenes only for a condition that has been the dominant *)
(* label of the evaluated states for at least sustained_window_s seconds.  *)
C6_Persisted ==
    Intervened => EvaluatedState.t - dominantSince >= config.sustained_window_s

(* C10: on a fresh engine with threshold 0.5 and default preferences, once *)
(* wandering-dominant states of confidence 0.6 have been evaluated over at *)
(* least sustained_window_s seconds, evaluate intervenes with class reset  *)
(* or modality, wherever the caller's clock starts.                        *)
C10_FreshEngineIntervenes ==
    ( /\ Evaluated
      /\ config = DEFAULT_POLICY_CONFIG
      /\ PriorInterventions = << >>
      /\ EvaluatedState.dominant = "wandering"
      /\ EvaluatedState.confidence = 60
      /\ EvaluatedState.t - dominantSince >= config.sustained_window_s
      /\ \A i \in DOMAIN conditionHistory : conditionHistory[i].condition = "wandering" )
    => /\ Decision.should_intervene
       /\ Decision.intervention[1].class \in {"reset", "modality"}

\* The time of the last intervention before the latest call, 0 when there is none.
PriorLastTime ==
    IF PriorInterventions = << >> THEN 0
    ELSE PriorInterventions[Len(PriorInterventions)].t

\* The recorded conditions of the last sustained_window_s seconds.
InWindow ==
    { i \in DOMAIN conditionHistory :
         conditionHistory[i].t >= EvaluatedState.t - config.sustained_window_s }

MatchingInWindow ==
    { i \in InWindow : conditionHistory[i].condition = EvaluatedState.dominant }

\* The earliest gate, in the order relevance, confidence, sustain, cooldown,
\* rate limit, that the latest evaluate call fails; "none" when it fails none.
FirstFailingGate ==
    IF EvaluatedState.dominant = "attentive" THEN "relevance"
    ELSE IF EvaluatedState.confidence <
              ClaimedThreshold(config.confidence_threshold, config.preferences.frequency)
    THEN "confidence"
    ELSE IF InWindow = {} \/ 10 * Cardinality(MatchingInWindow) < 6 * Cardinality(InWindow)
    THEN "sustain"
    ELSE IF 10 * (EvaluatedState.t - PriorLastTime) <
              ClaimedCooldown10(config.cooldown_s, config.preferences.frequency)
    THEN "cooldown"
    ELSE IF CountIn(PriorInterventions, EvaluatedState.t - 600, EvaluatedState.t)
              >= config.max_per_10min
    THEN "rate limit"
    ELSE "none"

GateReasoning(gate) ==
    CASE gate = "relevance"  -> ReasonRelevance
      [] gate = "confidence" -> ReasonConfidence
      [] gate = "sustain"    -> ReasonSustain
      [] gate = "cooldown"   -> ReasonCooldown
      [] gate = "rate limit" -> ReasonRateLimit
      [] gate = "none"       -> ReasonOffer

\* Ten times the next_evaluation_s the claim's text gives for a failing gate.
ClaimedNextEvaluation10(gate) ==
    LET cooldown10 == ClaimedCooldown10(config.cooldown_s, config.preferences.frequency)
        left10     == cooldown10 - 10 * (EvaluatedState.t - PriorLastTime)
    IN  CASE gate = "relevance"  -> 100
          [] gate = "confidence" -> 50
          [] gate = "sustain"    -> 50
          [] gate = "cooldown"   -> 10 * (CHOOSE n \in 1..400 : 10 * (n - 1) < left10 /\ left10 <= 10 * n)
          [] gate = "rate limit" -> 600
          [] gate = "none"       -> cooldown10

(* C11: the gates apply in the order relevance, confidence, sustain,       *)
(* cooldown, rate limit: an abstention carries the reasoning and the       *)
(* next_evaluation_s of the earliest failing gate, and evaluate intervenes *)
(* only when all five pass.                                                *)
C11_GateOrder ==
    Evaluated =>
       /\ Decision.reasoning = GateReasoning(FirstFailingGate)
       /\ Decision.next_evaluation_x10 = ClaimedNextEvaluation10(FirstFailingGate)
       /\ Decision.should_intervene <=> FirstFailingGate = "none"
       /\ Decision.intervention = << >> <=> FirstFailingGate # "none"

C11_Witness ==
    /\ Evaluated
    /\ FirstFailingGate = "cooldown"
    /\ Decision.reasoning = ReasonCooldown
    /\ CountIn(PriorInterventions, EvaluatedState.t - 600, EvaluatedState.t)
         >= config.max_per_10min

(* C12: next_evaluation_s is 10 after a relevance failure, 5 after a       *)
(* confidence or sustain failure, the remaining cooldown rounded up (at    *)
(* least 1) after a cooldown failure, 60 after a rate-limit failure, and   *)
(* the adjusted cooldown after an intervention.                            *)
C12_NextEvaluation ==
    Evaluated =>
       /\ Decision.reasoning = ReasonRelevance  => Decision.next_evaluation_x10 = 100
       /\ Decision.reasoning = ReasonConfidence => Decision.next_evaluation_x10 = 50
       /\ Decision.reasoning = ReasonSustain    => Decision.next_evaluation_x10 = 50
       /\ Decision.reasoning = ReasonRateLimit  => Decision.next_evaluation_x10 = 600
       /\ Decision.reasoning = ReasonCooldown   =>
             /\ Decision.next_evaluation_x10 = ClaimedNextEvaluation10("cooldown")
             /\ Decision.next_evaluation_x10 >= 10
       /\ Decision.should_intervene =>
             Decision.next_evaluation_x10 =
                ClaimedCooldown10(config.cooldown_s, config.preferences.frequency)

C12_Witness ==
    /\ Evaluated
    /\ Decision.reasoning = ReasonCooldown
    /\ config.preferences.frequency = "more"
    /\ config.cooldown_s = 75
    /\ Len(history) > 0
    /\ Decision.next_evaluation_x10 = 530

\* The candidate classes the claim's text gives for a dominant label.
ClaimedCandidates(dominant) ==
    CASE dominant = "wandering"  -> {"reset", "modality"}
      [] dominant = "confused"   -> {"hint", "pace", "modality"}
      [] dominant = "overloaded" -> {"pace", "reset"}
      [] dominant = "fatigued"   -> {"reset", "pace"}
      [] dominant = "attentive"  -> {}

(* C13: the class of every intervention evaluate returns belongs to the    *)
(* candidate set of the state's dominant label, and 'agency' is never      *)
(* issued.                                                                 *)
C13_ClassAmongCandidates ==
    /\ Intervened =>
          /\ Decision.intervention[1].class \in ClaimedCandidates(EvaluatedState.dominant)
          /\ history[Len(history)].class = Decision.intervention[1].class
    /\ \A i \in DOMAIN history : history[i].class # "agency"

C13_Witness ==
    /\ Intervened
    /\ EvaluatedState.dominant = "wandering"
    /\ ~config.preferences.offer_breaks
    /\ Len(history) >= 2
    /\ history[Len(history) - 1].class = "modality"
    /\ Decision.intervention[1].class = "modality"

(* C14: while offer_breaks is false no intervention of class 'reset' is    *)
(* issued, and while offer_hints is false none of class 'hint'.            *)
C14_DisabledClasses ==
    Intervened =>
       /\ ~config.preferences.offer_breaks => Decision.intervention[1].class # "reset"
       /\ ~config.preferences.offer_hints  => Decision.intervention[1].class # "hint"

C14_Witness ==
    /\ Intervened
    /\ ~config.preferences.offer_breaks
    /\ ~config.preferences.offer_hints
    /\ EvaluatedState.dominant = "fatigued"
    /\ Len(history) >= 2
    /\ history[Len(history) - 1].class = "pace"
    /\ Decision.intervention[1].class = "pace"

\* The step is an estimate call; its argument is estimatorCall'.arg[1].
EstimateStep == estimatorCall'.op = "estimate" /\ estimatorVars' # estimatorVars

(* C15: estimate(now) returns a state only if now - lastEmit >=            *)
(* emit_interval_s, otherwise null with the estimator unchanged; a second  *)
(* estimate with the same now returns null; the timestamps of successive   *)
(* emissions (since construction or reset) are at least emit_interval_s    *)
(* apart, whatever the order of the now values.                            *)
C15_EmitInterval ==
    /\ [][ EstimateStep =>
             /\ emitted' # << >> <=>
                   estimatorCall'.arg[1] - lastEmit >= estimatorConfig.emit_interval_s
             /\ emitted' = << >> =>
                   /\ buffer' = buffer
                   /\ lastEmit' = lastEmit
                   /\ smoothed' = smoothed
                   /\ currentTier' = currentTier
                   /\ estimatorConfig' = estimatorConfig
             /\ ( /\ estimatorCall.op = "estimate"
                  /\ emitted # << >>
                  /\ estimatorCall'.arg[1] = estimatorCall.arg[1] )
                => emitted' = << >> ]_vars
    /\ [](\A i \in 1..(Len(emissions) - 1) :
             emissions[i + 1] - emissions[i] >= estimatorConfig.emit_interval_s)

C15_Witness ==
    /\ estimatorCall.op = "estimate"
    /\ emitted = << >>
    /\ Len(emissions) = 2
    /\ estimatorCall.arg[1] < emissions[1]
    /\ Len(ingested) > 0

(* C16: estimate called before any sample has been ingested (also after    *)
(* reset) returns an empty result, not a scored state.                     *)
C16_EmptyBeforeIngest ==
    (estimatorCall.op = "estimate" /\ ingested = << >>) => emitted = << >>

(* C19: in every emitted state each of the five scores and the confidence  *)
(* lie in [0, 1].                                                          *)
C19_ScoresInRange ==
    emitted # << >> =>
       /\ \A l \in LearningCondition :
             0 <= emitted[1].condition[l] /\ emitted[1].condition[l] <= 100000
       /\ 0 <= emitted[1].confidence /\ emitted[1].confidence <= 100

C19_Witness ==
    /\ emitted # << >>
    /\ Len(ingested) = 2
    /\ emitted[1].condition.overloaded = 100000
    /\ emitted[1].condition.attentive < 100000
    /\ emitted[1].confidence > 10

\* buf is ordered by timestamp.
Ordered(buf) == \A i, j \in DOMAIN buf : i <= j => buf[i].t <= buf[j].t

\* The greatest timestamp ingested since construction or the last reset.
NewestIngested ==
    CHOOSE t \in { ingested[i].t : i \in DOMAIN ingested } :
       \A i \in DOMAIN ingested : ingested[i].t <= t

(* C17: with non-decreasing sample timestamps the buffer is, after every   *)
(* ingest, ordered by timestamp and holds exactly the samples ingested     *)
(* since the last reset whose timestamp is >= the latest timestamp minus   *)
(* window_s.                                                               *)
C17_BufferIsWindow ==
    /\ Ordered(buffer)
    /\ buffer = SelectSeq(ingested,
                   LAMBDA e : e.t >= lastIngested - estimatorConfig.window_s)

C17_Witness ==
    /\ estimatorCall.op = "ingest"
    /\ Len(ingested) = 4
    /\ Len(buffer) = 3
    /\ buffer[1].t = lastIngested - estimatorConfig.window_s

(* C18: after an ingest with a timestamp lower than an earlier one the     *)
(* buffer is still ordered by timestamp and holds no sample older than     *)
(* window_s relative to the newest timestamp seen.                         *)
C18_UnorderedIngest ==
    ingested # << >> =>
       /\ Ordered(buffer)
       /\ \A i \in DOMAIN buffer : buffer[i].t >= NewestIngested - estimatorConfig.window_s

\* buf with the gaze of its i-th sample absent.
WithoutGaze(buf, i) == [ buf EXCEPT ![i].gaze = << >> ]

\* buf with no face present in its i-th sample.
WithoutFace(buf, i) == [ buf EXCEPT ![i].quality.face_present = FALSE ]

(* C20: for the same buffer the confidence does not decrease from tier 0   *)
(* to 1 to 2, is not lowered by gaze data or face presence in a sample,    *)
(* and never exceeds 1.                                                    *)
C20_ConfidenceMonotone ==
    /\ computeConfidence(0, buffer) <= computeConfidence(1, buffer)
    /\ computeConfidence(1, buffer) <= computeConfidence(2, buffer)
    /\ \A tier \in PerceptionTier :
          /\ computeConfidence(tier, buffer) <= 100
          /\ \A i \in DOMAIN buffer :
                /\ computeConfidence(tier, WithoutGaze(buffer, i)) <= computeConfidence(tier, buffer)
                /\ computeConfidence(tier, WithoutFace(buffer, i)) <= computeConfidence(tier, buffer)
    /\ emitted # << >> => emitted[1].confidence = computeConfidence(currentTier, buffer)

C20_Witness ==
    /\ emitted # << >>
    /\ currentTier = 2
    /\ Len(buffer) > 30
    /\ buffer[1].gaze # << >>
    /\ emitted[1].confidence = 100

\* The position of a label in the fixed order attentive, wandering, confused,
\* overloaded, fatigued.
Priority(l) ==
    CASE l = "attentive"  -> 1
      [] l = "wandering"  -> 2
      [] l = "confused"   -> 3
      [] l = "overloaded" -> 4
      [] l = "fatigued"   -> 5

(* C21: the dominant label of every emitted state has the maximal score,   *)
(* and among the labels that share the maximal score it is the earliest in *)
(* the order attentive, wandering, confused, overloaded, fatigued.         *)
C21_DominantIsArgmax ==
    emitted # << >> =>
       LET scores   == emitted[1].condition
           dominant == emitted[1].dominant
       IN  /\ dominant \in LearningCondition
           /\ \A l \in LearningCondition :
                 /\ scores[l] <= scores[dominant]
                 /\ scores[l] = scores[dominant] => Priority(dominant) <= Priority(l)

C21_Witness ==
    /\ emitted # << >>
    /\ emitted[1].condition.overloaded = emitted[1].condition.fatigued
    /\ emitted[1].condition.wandering < emitted[1].condition.overloaded
    /\ emitted[1].condition.attentive < emitted[1].condition.overloaded
    /\ emitted[1].dominant = "overloaded"

\* The smoothed retry rate has settled under samples of five retries: one more
\* such sample leaves it where it is.
RetrySettled == ewma(smoothed.retry_rate, 5000, ALPHA) = smoothed.retry_rate

(* C22: whenever the smoothed retry rate has settled at 5 and the smoothed *)
(* interaction pace is below 0.1, the dominant label of the emitted state  *)
(* is 'confused', whatever the other smoothed channels are.                *)
C22_ConfusedDominant ==
    (emitted # << >> /\ RetrySettled /\ smoothed.interaction_pace < 100)
    => emitted[1].dominant = "confused"

Compared(c, returned) ==
    IF c.op = "evaluate"
    THEN [ should_intervene    |-> returned[1].should_intervene,
           class               |-> IF returned[1].intervention = << >> THEN "null"
                                   ELSE returned[1].intervention[1].class,
           options             |-> IF returned[1].intervention = << >> THEN << >>
                                   ELSE returned[1].intervention[1].options,
           reasoning           |-> returned[1].reasoning,
           next_evaluation_x10 |-> returned[1].next_evaluation_x10 ]
    ELSE returned

C25_ResetClears ==
    /\ estimatorCall.op = "reset" =>
          /\ buffer = << >>
          /\ lastEmit = 0
          /\ smoothed = [ gaze_stability |-> 500, pose_stability |-> 500, blink_rate |-> 200,
                          interaction_pace |-> 500, retry_rate |-> 0, idle_time |-> 0 ]
    /\ call.op = "reset" =>
          /\ history = << >>
          /\ conditionHistory = << >>
          /\ lastInterventionTime = 0

\* Both components reset after two evaluations, the later at 80, on Tier 1.
C25_Witness ==
    /\ estimatorCall.op = "reset"
    /\ call.op = "reset"
    /\ now = 80
    /\ currentTier = 1

(* C26: whenever evaluate intervenes at time now, the dominant label of    *)
(* the evaluated state is the label of at least 60% of the condition-      *)
(* history entries with timestamp >= now - sustained_window_s, the entry   *)
(* of the call included; when it is the label of fewer, the call abstains  *)
(* at the relevance, confidence or sustain gate.                           *)
C26_SustainedShare ==
    Evaluated =>
       /\ Decision.should_intervene =>
             10 * Cardinality(MatchingInWindow) >= 6 * Cardinality(InWindow)
       /\ 10 * Cardinality(MatchingInWindow) < 6 * Cardinality(InWindow) =>
             /\ ~Decision.should_intervene
             /\ Decision.reasoning \in {ReasonRelevance, ReasonConfidence, ReasonSustain}
       /\ Len(conditionHistory) \in InWindow

\* An intervention on three entries of five, exactly 60%.
C26_Witness ==
    /\ Intervened
    /\ Cardinality(InWindow) = 5
    /\ Cardinality(MatchingInWindow) = 3

\* The step is an evaluate call: it always records the label it is given.
EvaluateStep == call'.op = "evaluate" /\ conditionHistory' # conditionHistory

(* C27: an evaluate call that abstains leaves the intervention history,    *)
(* the last-intervention time and cooldown_s unchanged; one that           *)
(* intervenes appends exactly one record (state.t, chosen class) to the    *)
(* history and sets the last-intervention time to state.t.                 *)
C27_EvaluateFrame ==
    [][ EvaluateStep =>
          IF decision'[1].should_intervene
          THEN /\ history' = Append(history,
                                [ t     |-> call'.arg[1].t,
                                  class |-> decision'[1].intervention[1].class ])
               /\ lastInterventionTime' = call'.arg[1].t
          ELSE /\ history' = history
               /\ lastInterventionTime' = lastInterventionTime
               /\ config'.cooldown_s = config.cooldown_s ]_vars

\* A second intervention, then an abstention that leaves both records.
C27_Witness ==
    /\ Evaluated
    /\ ~Decision.should_intervene
    /\ Len(history) = 2
    /\ lastInterventionTime = history[2].t
    /\ history[1].t < history[2].t
    /\ EvaluatedState.t >= lastInterventionTime
    /\ Decision.reasoning = ReasonCooldown

\* The candidates of a label that the preferences leave.
ClaimedFiltered(dominant, preferences) ==
    { c \in ClaimedCandidates(dominant) :
         /\ c = "reset" => preferences.offer_breaks
         /\ c = "hint" => preferences.offer_hints }

(* C28: the class chosen for an intervention differs from the class of the *)
(* latest record of the intervention history whenever the filtered         *)
(* candidates of the dominant label hold another class, and repeats it     *)
(* only when it is their sole member; with offer_breaks and offer_hints    *)
(* both true it never repeats it.                                          *)
C28_ClassVaries ==
    (Intervened /\ PriorInterventions # << >>) =>
       LET last     == PriorInterventions[Len(PriorInterventions)].class
           filtered == ClaimedFiltered(EvaluatedState.dominant, config.preferences)
           cls      == Decision.intervention[1].class
       IN  /\ filtered \ {last} # {} => cls # last
           /\ cls = last => filtered = {last}
           /\ (config.preferences.offer_breaks /\ config.preferences.offer_hints) => cls # last

\* The first candidate of 'wandering' was the last class, so the second is chosen.
C28_Witness ==
    /\ Intervened
    /\ config.preferences.offer_breaks /\ config.preferences.offer_hints
    /\ EvaluatedState.dominant = "wandering"
    /\ Len(history) >= 2
    /\ history[Len(history) - 1].class = "reset"
    /\ Decision.intervention[1].class = "modality"

(* C29: the intervention history is ordered by timestamp after any         *)
(* sequence of operations: the timestamp of each record is >= that of      *)
(* every earlier record, also when evaluate is called with state           *)
(* timestamps that go back in time.                                        *)
C29_HistoryOrdered ==
    \A i, j \in 1..Len(history) : i < j => history[i].t <= history[j].t

\* A second record appended by an evaluate whose timestamp is earlier than
\* that of the evaluate before it.
C29_Witness ==
    /\ Intervened
    /\ Len(history) = 2
    /\ Len(conditionHistory) = 2
    /\ conditionHistory[1].t > EvaluatedState.t

(* C30: every decision evaluate returns has a non-empty reasoning, and     *)
(* should_intervene is true exactly when the intervention is not null; a   *)
(* decision with should_intervene true carries an intervention with an     *)
(* id, a class, a message, options, the descriptions of the state's        *)
(* drivers as triggered_by, and the confidence of the state.               *)
C30_DecisionWellFormed ==
    Evaluated =>
       /\ Decision.reasoning # ""
       /\ Decision.should_intervene <=> Decision.intervention # << >>
       /\ Decision.should_intervene =>
             LET intervention == Decision.intervention[1]
                 drivers      == EvaluatedState.drivers
             IN  /\ DOMAIN intervention =
                       {"id", "class", "message", "options", "triggered_by", "confidence"}
                 /\ intervention.id # ""
                 /\ intervention.class \in InterventionClass
                 /\ intervention.message \in 1..GrammarSize
                 /\ Len(intervention.options) >= 2
                 /\ Len(intervention.triggered_by) = Len(drivers)
                 /\ \A i \in DOMAIN drivers :
                       intervention.triggered_by[i] = drivers[i].description
                 /\ intervention.confidence = EvaluatedState.confidence

\* An intervention for a state with two drivers.
C30_Witness ==
    /\ Intervened
    /\ Len(EvaluatedState.drivers) = 2
    /\ Decision.intervention[1].triggered_by =
          << "1 retries in last minute", "elevated blink rate" >>

\* A step that is a call of ingest.
IngestStep == estimatorCall'.op = "ingest" /\ ingested' # ingested

(* C31: ingest of a sample without gaze (pose, eyes, idle_seconds) leaves  *)
(* the smoothed gaze_stability (pose_stability, blink_rate, idle_time) as  *)
(* it was, and every ingest smooths interaction_pace and retry_rate with   *)
(* the sample's tap rate and retry count.                                  *)
C31_MissingFieldHolds ==
    [][ IngestStep =>
          LET event == estimatorCall'.arg[1]
          IN  /\ event.gaze = << >> => smoothed'.gaze_stability = smoothed.gaze_stability
              /\ event.pose = << >> => smoothed'.pose_stability = smoothed.pose_stability
              /\ event.eyes = << >> => smoothed'.blink_rate = smoothed.blink_rate
              /\ event.interaction.idle_seconds = << >> =>
                     smoothed'.idle_time = smoothed.idle_time
              /\ smoothed'.interaction_pace =
                     ewma(smoothed.interaction_pace, event.interaction.tap_rate_10s, ALPHA)
              /\ smoothed'.retry_rate =
                     ewma(smoothed.retry_rate, event.interaction.retry_count_60s, ALPHA) ]_vars

\* A camera sample moved the camera signals and the idle time, and a
\* telemetry sample without idle_seconds after it left all four where they were.
C31_Witness ==
    /\ estimatorCall.op = "ingest"
    /\ Len(ingested) = 2
    /\ ingested[1].gaze # << >> /\ ingested[1].interaction.idle_seconds # << >>
    /\ ingested[2].gaze = << >> /\ ingested[2].pose = << >> /\ ingested[2].eyes = << >>
    /\ ingested[2].interaction.idle_seconds = << >>
    /\ smoothed.gaze_stability = updateSmoothedSignals(InitialSmoothed, ingested[1]).gaze_stability
    /\ smoothed.gaze_stability # InitialSmoothed.gaze_stability
    /\ smoothed.idle_time = updateSmoothedSignals(InitialSmoothed, ingested[1]).idle_time
    /\ smoothed.idle_time > 0
    /\ smoothed.interaction_pace
          # updateSmoothedSignals(InitialSmoothed, ingested[1]).interaction_pace

\* The options the claim gives an intervention of a class.
ClaimedOptions(cls) ==
    IF cls \in {"modality", "agency"}
    THEN << "accept", "alternative", "dismiss" >>
    ELSE << "accept", "dismiss" >>

\* The ids and the actions of a list of options.
OptionIds(options) == [ i \in DOMAIN options |-> options[i].id ]
OptionActions(options) == [ i \in DOMAIN options |-> options[i].action ]

(* C32: an intervention of class 'modality' or 'agency' has exactly the    *)
(* options accept, alternative, dismiss in that order, and an intervention *)
(* of any other class exactly accept, dismiss: for the options built for   *)
(* each class and for those of every intervention evaluate returns.        *)
C32_OptionsInOrder ==
    /\ \A cls \in InterventionClass :
          /\ OptionIds(buildIntervention(cls, [ confidence |-> 0, drivers |-> << >> ], 1).options)
                = ClaimedOptions(cls)
          /\ OptionActions(buildIntervention(cls, [ confidence |-> 0, drivers |-> << >> ], 1).options)
                = ClaimedOptions(cls)
    /\ Intervened =>
          /\ OptionIds(Decision.intervention[1].options)
                = ClaimedOptions(Decision.intervention[1].class)
          /\ OptionActions(Decision.intervention[1].options)
                = ClaimedOptions(Decision.intervention[1].class)

\* 'modality' offered to a confused learner, after 'pace' and with hints off.
C32_Witness ==
    /\ Intervened
    /\ EvaluatedState.dominant = "confused"
    /\ Decision.intervention[1].class = "modality"
    /\ Len(Decision.intervention[1].options) = 3
    /\ Decision.intervention[1].options[2].id = "alternative"

(* C33: after any evaluate call at time now the intervention history holds *)
(* no record older than the 600-second rate-limit window, so that its      *)
(* length is the number of interventions issued within that window.        *)
C33_HistoryPruned ==
    Evaluated =>
       /\ \A i \in DOMAIN history : EvaluatedState.t - history[i].t < RateWindow
       /\ Len(history) = recentCount(history, EvaluatedState.t)

\* An evaluate eleven minutes after an intervention whose record is still held.
C33_Witness ==
    /\ Evaluated
    /\ history # << >>
    /\ EvaluatedState.t - history[1].t = 660

\* 0.7 x 60, the shortest adjusted cooldown of an engine whose cooldown_s
\* starts within [60, 300].
ShortestCooldown == 42

(* C34: for an engine whose cooldown_s starts within [60, 300] and that is *)
(* not reset, any two issued interventions are at least 42 seconds apart,  *)
(* whatever evaluate, recordResponse and updatePreferences calls come      *)
(* between them.                                                           *)
C34_InterventionsApart ==
    \A i, j \in DOMAIN history :
       i < j => history[j].t - history[i].t >= ShortestCooldown

\* Two interventions exactly 42 seconds apart, under 'more' with cooldown_s 60.
C34_Witness ==
    /\ Intervened
    /\ Len(history) = 2
    /\ history[2].t - history[1].t = ShortestCooldown
    /\ config.cooldown_s = 60
    /\ config.preferences.frequency = "more"

\* The entries of a condition history that isSustained counts at time t.
InSustainWindow(condHist, t) ==
    SelectSeq(condHist, LAMBDA h : h.t >= t - config.sustained_window_s)

(* C35: every evaluate call appends the state's timestamp and dominant     *)
(* label to the condition history, whatever the decision: after the call   *)
(* the history is not empty and ends with that entry, and the entries the  *)
(* sustain gate counts are all the earlier entries of its window and the   *)
(* new one, those of attentive and low-confidence states included.         *)
C35_EveryStateCounts ==
    /\ [](Evaluated =>
            /\ conditionHistory # << >>
            /\ conditionHistory[Len(conditionHistory)] =
                  [ t |-> EvaluatedState.t, condition |-> EvaluatedState.dominant ])
    /\ [][ call'.op = "evaluate" /\ call' # call =>
             LET state == call'.arg[1]
             IN  InSustainWindow(conditionHistory', state.t) =
                    InSustainWindow(Append(conditionHistory,
                                           [ t |-> state.t, condition |-> state.dominant ]),
                                    state.t) ]_vars

\* A confused state is held back by the sustain gate because a wandering
\* state of the same instant, which drew no intervention, is counted.
C35_Witness ==
    /\ Evaluated
    /\ Decision.reasoning = ReasonSustain
    /\ EvaluatedState.dominant = "confused"
    /\ Len(conditionHistory) = 2
    /\ conditionHistory[1] = [ t |-> EvaluatedState.t, condition |-> "wandering" ]
    /\ history = << >>

\* How far past now + r the later evaluate is looked for.
WaitHorizon == 30

(* C36: after a cooldown abstention at time now that returns               *)
(* next_evaluation_s = r, an evaluate at any time >= now + r is not        *)
(* rejected by the cooldown gate while cooldown_s, the frequency and the   *)
(* last intervention are as they were: the gate is open at each such time  *)
(* for the engine as the abstention leaves it, and an evaluate that comes  *)
(* next at such a time does not return a cooldown abstention.              *)
C36_WaitIsEnough ==
    /\ [](Evaluated /\ Decision.reasoning = ReasonCooldown =>
            \A t \in 0..(MaxTimeWait + WaitHorizon) :
               10 * t >= 10 * EvaluatedState.t + Decision.next_evaluation_x10 =>
                  CooldownGate(config, lastInterventionTime, [ t |-> t ]))
    /\ [][ ( /\ Evaluated /\ Decision.reasoning = ReasonCooldown
             /\ call'.op = "evaluate"
             /\ 10 * call'.arg[1].t >= 10 * EvaluatedState.t + Decision.next_evaluation_x10 )
           => decision'[1].reasoning # ReasonCooldown ]_vars

\* The evaluate that comes exactly r = 10 seconds after a cooldown abstention
\* with 9.5 s remaining, and intervenes.
C36_Witness ==
    /\ Intervened
    /\ config.preferences.frequency = "more"
    /\ EvaluatedState.t = 11
    /\ Len(conditionHistory) = 2
    /\ conditionHistory[1].t = 1

(* C37: the engine's reset leaves cooldown_s, with every adjustment of     *)
(* earlier responses, and the preferences as they were, and the            *)
(* estimator's reset leaves the current tier and its configuration as      *)
(* they were.                                                              *)
C37_ResetKeepsConfiguration ==
    [][ /\ (call'.op = "reset" /\ call.op # "reset") => config' = config
        /\ (estimatorCall'.op = "reset" /\ estimatorCall.op # "reset") =>
              /\ currentTier' = currentTier
              /\ estimatorConfig' = estimatorConfig ]_vars

\* Both components reset: the engine after a dismissal and a change of
\* every preference, the estimator at Tier 2 after a sample.
C37_Witness ==
    /\ call.op = "reset" /\ history = << >> /\ lastInterventionTime = 0
    /\ config.cooldown_s = 135
    /\ config.preferences = [ frequency |-> "fewer", offer_breaks |-> FALSE,
                               offer_hints |-> FALSE ]
    /\ estimatorCall.op = "reset" /\ buffer = << >>
    /\ smoothed = InitialSmoothed
    /\ currentTier = 2

\* The adjusted threshold of the engine's configuration under a frequency.
ThresholdUnder(frequency) ==
    adjustedThreshold([ config EXCEPT !.preferences.frequency = frequency ])

(* C38: for every configured confidence_threshold the adjusted threshold   *)
(* under 'more' is <= that under 'default', which is <= that under         *)
(* 'fewer'.                                                                *)
C38_ThresholdMonotone ==
    /\ ThresholdUnder("more") <= ThresholdUnder("default")
    /\ ThresholdUnder("default") <= ThresholdUnder("fewer")

\* With a threshold of 0.2, a state of confidence 0.25 is turned down by the
\* confidence gate under 'more', and passes it under 'default'.
C38_Witness ==
    /\ Evaluated
    /\ config.confidence_threshold = 20
    /\ config.preferences.frequency = "more"
    /\ EvaluatedState.confidence = 25
    /\ Decision.reasoning = ReasonConfidence
    /\ ConfidenceGate([ config EXCEPT !.preferences.frequency = "default" ], EvaluatedState)

(* C39: for any sequence of start(), pause() and stop() calls at most one  *)
(* inference timer is scheduled at any time, and after pause() or stop()   *)
(* no inference timer remains scheduled.                                   *)
C39_OneTimer ==
    /\ Cardinality(timers) <= 1
    /\ pipelineCall \in {"pause", "stop"} => timers = {}

\* runInference has run after stop() and before any start(): the estimator
\* that stop() reset has ingested a sample since.
C39_Witness ==
    /\ pipelineCall = "stop"
    /\ inferenceInterval = << >>
    /\ timers = {1}
    /\ ingested # << >>
    /\ estimatorCall.op = "estimate"

=============================================================================
